---- MODULE Spec2Model ----
(***************************************************************************)
(* A model of the symbolic core of the symmetries package: jet spaces      *)
(* (jetspace.py), infinitesimal generators and their prolongation          *)
(* (generator.py) and the linearized symmetry condition (symcond.py).      *)
(*                                                                         *)
(* Symbols are modelled by their names (strings): two sympy Symbols        *)
(* without assumptions are equal exactly when their names are equal.       *)
(* Expressions are modelled by their expanded form: a polynomial with      *)
(* integer coefficients, i.e. a function from monomials (bags of symbol    *)
(* names) to nonzero coefficients.  Python dicts are modelled as ordered   *)
(* dictionaries, because the code iterates them in insertion order.        *)
(***************************************************************************)
EXTENDS Bags, FiniteSets, Integers, Sequences, TLC

VARIABLES space, gen, prob, res

vars == <<space, gen, prob, res>>

(***************************************************************************)
(* Bounds of the model.                                                    *)
(***************************************************************************)
\* Highest degree a jet space is constructed with.
MaxInitDegree == 1
\* Highest degree a jet space is extended to.
MaxDegree == 3
\* Highest degree of a jet space a generator is prolonged over.
MaxProlDegree == 2
\* The largest number of live JetSpace objects.
MaxSpaces == 3
\* The highest index i of a constant C<i> in an input of replace_consts.
MaxConsts == 3
\* The largest number of expressions in an input of replace_consts.
MaxExprs == 2
\* The largest number of components of an integrated state.
MaxVecLen == 2
\* The largest value of a component of an integrated state.
MaxY == 1
\* The largest max_len of an integration, in steps of dt.
MaxLen == 1

(***************************************************************************)
(* Results of calls: a returned value or a raised exception.               *)
(***************************************************************************)
Ok(v) == [ok |-> TRUE, val |-> v, err |-> "none"]
Raise(e) == [ok |-> FALSE, val |-> <<>>, err |-> e]

\* The exceptions the code raises.
ErrExtension == "ValueError: Extension must be to higher degree"
ErrNotInList == "ValueError: not in list"
ErrLengths == "ValueError: Iterables have different lengths"
ErrCoordinates == "NotImplementedError: Generators have to be in same coordinates"
ErrNoHints == "NotImplementedError: Hint-free substitutions not implemented"
ErrHintNotIn == "ValueError: Hint is not in equation"
ErrHintMultiple == "ValueError: Hint has multiple solutions"
ErrNonlinear == "NonlinearError"
KeyError == "KeyError"

(***************************************************************************)
(* Ordered dictionaries (Python dict): keys in insertion order.            *)
(***************************************************************************)
ODEmpty == [keys |-> <<>>, val |-> <<>>]

ODHas(d, k) == k \in DOMAIN d.val

ODGet(d, k) == d.val[k]

\* d[k] = v : an existing key keeps its position, a new key goes last.
ODPut(d, k, v) ==
    IF ODHas(d, k)
    THEN [d EXCEPT !.val = [j \in DOMAIN d.val |-> IF j = k THEN v ELSE d.val[j]]]
    ELSE [keys |-> Append(d.keys, k), val |-> d.val @@ (k :> v)]

ODKeySet(d) == DOMAIN d.val

\* d[k] as a call result: a missing key raises KeyError.
ODLookup(d, k) == IF ODHas(d, k) THEN Ok(ODGet(d, k)) ELSE Raise(KeyError)

\* d[k] = r.val, unless computing r raised.
ODPutResult(d, k, r) == IF r.ok THEN Ok(ODPut(d, k, r.val)) ELSE r

\* acc.val + [r.val] for a list acc, unless computing acc or r raised.
AppendResult(acc, r) ==
    IF ~acc.ok THEN acc ELSE IF ~r.ok THEN r ELSE Ok(Append(acc.val, r.val))

(***************************************************************************)
(* Multi-indices.                                                          *)
(***************************************************************************)
ZeroIndex(n) == [k \in 1..n |-> 0]

UnitIndex(i, n) == [k \in 1..n |-> IF k = i THEN 1 ELSE 0]

IndexAdd(a, b) == [k \in DOMAIN a |-> a[k] + b[k]]

IndexSub(a, b) == [k \in DOMAIN a |-> a[k] - b[k]]

RECURSIVE IndexSum(_)
IndexSum(a) == IF a = <<>> THEN 0 ELSE Head(a) + IndexSum(Tail(a))

\* All multi-indices with n slots and sum <= d.
AllIndices(n, d) == {a \in [1..n -> 0..d] : IndexSum(a) <= d}

(***************************************************************************)
(* itertools.combinations_with_replacement(range(1..n), d): the            *)
(* non-decreasing position tuples of length d, in lexicographic order.     *)
(***************************************************************************)
RECURSIVE CombsFrom(_, _, _)
RECURSIVE CombsOver(_, _, _, _)
CombsOver(i, hi, n, d) ==
    IF i > hi THEN <<>>
    ELSE LET rest == CombsFrom(i, n, d - 1)
         IN [k \in 1..Len(rest) |-> <<i>> \o rest[k]] \o CombsOver(i + 1, hi, n, d)
CombsFrom(lo, n, d) ==
    IF d = 0 THEN << <<>> >> ELSE CombsOver(lo, n, n, d)

combinations_with_replacement(n, d) == CombsFrom(1, n, d)

(***************************************************************************)
(* JetSpace (jetspace.py).                                                 *)
(***************************************************************************)
\* tuple(map(sum, zip(*tuples))) over the unit tuples of a combination.
DerivIndex(comb, n) ==
    [k \in 1..n |-> Cardinality({j \in 1..Len(comb) : comb[j] = k})]

\* "".join(map(str, deriv_symbol))
RECURSIVE DerivString(_, _)
DerivString(comb, base) ==
    IF comb = <<>> THEN "" ELSE base[Head(comb)] \o DerivString(Tail(comb), base)

\* dependent.name + "_{" + deriv_string + "}"
SymbolName(dependent, comb, base) ==
    dependent \o "_{" \o DerivString(comb, base) \o "}"

\* The inner loop of _add_jet_fibers for one dependent and one order.
RECURSIVE AddCombs(_, _, _, _)
AddCombs(table, dependent, combs, base) ==
    IF combs = <<>> THEN table
    ELSE AddCombs(ODPut(table, DerivIndex(Head(combs), Len(base)),
                        SymbolName(dependent, Head(combs), base)),
                  dependent, Tail(combs), base)

\* One pass of the loop "for d in range(lower_degree, upper_degree + 1)".
AddOrder(fibers, base, d) ==
    [fibers EXCEPT !.val =
        [dep \in DOMAIN fibers.val |->
            AddCombs(fibers.val[dep], dep,
                     combinations_with_replacement(Len(base), d), base)]]

\* _add_jet_fibers(upper_degree, lower_degree) on a fiber table.
RECURSIVE AddJetFibers(_, _, _, _)
AddJetFibers(fibers, base, upper_degree, lower_degree) ==
    IF lower_degree > upper_degree THEN fibers
    ELSE AddJetFibers(AddOrder(fibers, base, lower_degree), base,
                      upper_degree, lower_degree + 1)

\* The loop of __init__ that seeds every fiber with its zero multi-index.
RECURSIVE SeedFibers(_, _, _)
SeedFibers(fibers, fiber_coord, base_size) ==
    IF fiber_coord = <<>> THEN fibers
    ELSE SeedFibers(ODPut(fibers, Head(fiber_coord),
                          ODPut(ODEmpty, ZeroIndex(base_size), Head(fiber_coord))),
                    Tail(fiber_coord), base_size)

\* JetSpace.__init__(base_coord, fiber_coord, degree)
JetSpace(base_coord, fiber_coord, degree) ==
    [degree     |-> degree,
     base_space |-> base_coord,
     fibers     |-> AddJetFibers(SeedFibers(ODEmpty, fiber_coord, Len(base_coord)),
                                 base_coord, degree, 1)]

\* A variant of extension whose test is new_degree >= degree.
ExtensionOrEqual(self, new_degree) ==
    IF new_degree >= self.degree
    THEN Ok([degree     |-> new_degree,
             base_space |-> self.base_space,
             fibers     |-> AddJetFibers(self.fibers, self.base_space,
                                         self.degree + 1, new_degree)])
    ELSE Raise(ErrExtension)

\* JetSpace.extension(new_degree): the call passes (degree + 1, new_degree)
\* to _add_jet_fibers(upper_degree, lower_degree).
extension(self, new_degree) ==
    IF new_degree > self.degree
    THEN Ok([degree     |-> new_degree,
             base_space |-> self.base_space,
             fibers     |-> AddJetFibers(self.fibers, self.base_space,
                                         self.degree + 1, new_degree)])
    ELSE Raise(ErrExtension)

\* JetSpace.dependents
dependents(self) == self.fibers.keys

\* list.index: the first position of the symbol, 0 when absent.
ListIndex(list, e) ==
    IF \E i \in 1..Len(list) : list[i] = e
    THEN CHOOSE i \in 1..Len(list) :
            list[i] = e /\ \A j \in 1..(i - 1) : list[j] # e
    ELSE 0

\* JetSpace.base_index(base_symbol)
base_index(self, base_symbol) ==
    IF ListIndex(self.base_space, base_symbol) = 0 THEN Raise(ErrNotInList)
    ELSE Ok(UnitIndex(ListIndex(self.base_space, base_symbol), Len(self.base_space)))

\* The (dependent, multi-index, coordinate) triples of a jet space in the
\* order in which "for dependent in fibers: for index in fibers[dependent]"
\* visits them.
RECURSIVE TableItems(_, _, _)
TableItems(dep, table, keys) ==
    IF keys = <<>> THEN <<>>
    ELSE <<[dep |-> dep, index |-> Head(keys), coord |-> table.val[Head(keys)]]>>
         \o TableItems(dep, table, Tail(keys))

RECURSIVE FiberItemsOf(_, _)
FiberItemsOf(fibers, deps) ==
    IF deps = <<>> THEN <<>>
    ELSE TableItems(Head(deps), fibers.val[Head(deps)], fibers.val[Head(deps)].keys)
         \o FiberItemsOf(fibers, Tail(deps))

FiberItems(self) == FiberItemsOf(self.fibers, self.fibers.keys)

\* Every coordinate symbol of a jet space.
Coordinates(self) ==
    {self.base_space[i] : i \in 1..Len(self.base_space)}
    \cup {FiberItems(self)[i].coord : i \in 1..Len(FiberItems(self))}

(***************************************************************************)
(* Expressions: polynomials in expanded form.                              *)
(***************************************************************************)
PZero == <<>>

PConst(c) == IF c = 0 THEN PZero ELSE (EmptyBag :> c)

PSym(s) == (SetToBag({s}) :> 1)

Coef(p, m) == IF m \in DOMAIN p THEN p[m] ELSE 0

\* p + q
PAdd(p, q) ==
    LET D == DOMAIN p \cup DOMAIN q
    IN  [m \in {n \in D : Coef(p, n) + Coef(q, n) # 0} |-> Coef(p, m) + Coef(q, m)]

\* -p
PNeg(p) == [m \in DOMAIN p |-> 0 - p[m]]

\* p - q
PSub(p, q) == PAdd(p, PNeg(q))

\* c * a * q for a coefficient c and a monomial a
PMulTerm(q, a, c) ==
    IF c = 0 THEN PZero
    ELSE [m \in {b (+) a : b \in DOMAIN q} |-> c * q[m (-) a]]

\* p * q, expanded
RECURSIVE PMulOver(_, _, _)
PMulOver(ms, p, q) ==
    IF ms = {} THEN PZero
    ELSE LET a == CHOOSE m \in ms : TRUE
         IN  PAdd(PMulTerm(q, a, p[a]), PMulOver(ms \ {a}, p, q))

PMul(p, q) == PMulOver(DOMAIN p, p, q)

\* The sum of the values of a function f over a finite set S.
RECURSIVE PSumOver(_, _)
PSumOver(S, f) ==
    IF S = {} THEN PZero
    ELSE LET e == CHOOSE x \in S : TRUE
         IN  PAdd(f[e], PSumOver(S \ {e}, f))

\* expr.diff(symbol): the partial derivative in one symbol
PDiff(p, s) ==
    LET one == SetToBag({s})
        D   == {m \in DOMAIN p : CopiesIn(s, m) > 0}
    IN  [n \in {m (-) one : m \in D} |-> p[n (+) one] * CopiesIn(s, n (+) one)]

\* The symbols occurring in an expression (expr.free_symbols).
FreeSymbols(p) == UNION {BagToSet(m) : m \in DOMAIN p}

\* A variant of the loop body of total_derivative that differentiates by
\* the dependent instead of by the fiber coordinate.
TDStepByDependent(acc, item, jet_exp, coord_index, codomain) ==
    IF ~acc.ok THEN acc
    ELSE LET deriv_index == IndexAdd(item.index, coord_index)
             table == codomain.fibers.val[item.dep]
         IN  IF ~ODHas(table, deriv_index) THEN Raise(KeyError)
             ELSE Ok(PAdd(acc.val, PMul(PSym(ODGet(table, deriv_index)),
                                        PDiff(jet_exp, item.dep))))

(***************************************************************************)
(* total_derivative (jetspace.py).                                         *)
(***************************************************************************)
\* One pass of the body of the double loop over domain.fibers.
TDStep(acc, item, jet_exp, coord_index, codomain) ==
    IF ~acc.ok THEN acc
    ELSE LET deriv_index == IndexAdd(item.index, coord_index)
             table == codomain.fibers.val[item.dep]
         IN  IF ~ODHas(table, deriv_index) THEN Raise(KeyError)
             ELSE Ok(PAdd(acc.val, PMul(PSym(ODGet(table, deriv_index)),
                                        PDiff(jet_exp, item.coord))))

RECURSIVE TDLoop(_, _, _, _, _)
TDLoop(acc, items, jet_exp, coord_index, codomain) ==
    IF items = <<>> THEN acc
    ELSE TDLoop(TDStep(acc, Head(items), jet_exp, coord_index, codomain),
                Tail(items), jet_exp, coord_index, codomain)

\* total_derivative(jet_exp, coordinate, domain)
total_derivative(jet_exp, coordinate, domain) ==
    LET codomain    == extension(domain, domain.degree + 1).val
        coord_index == base_index(domain, coordinate)
    IN  IF ~coord_index.ok THEN coord_index
        ELSE TDLoop(Ok(PDiff(jet_exp, coordinate)), FiberItems(domain),
                    jet_exp, coord_index.val, codomain)

(***************************************************************************)
(* get_prolongations (generator.py).                                       *)
(***************************************************************************)
\* next(i for i, x in enumerate(multiindex) if x): the first nonzero slot.
IndexClass(multiindex) ==
    CHOOSE i \in 1..Len(multiindex) :
        multiindex[i] # 0 /\ \A j \in 1..(i - 1) : multiindex[j] = 0

\* The loop "for base_coord, xi in zip_strict(jet_space.base_space, xis)"
\* from its j-th pair on; acc is the entry eta_prolongations[dependent]
\* [multiindex] so far.  zip_strict raises once one side is exhausted
\* before the other.
\* acc - deriv_coord * D_xi, unless one of the three raised: the lookup of
\* deriv_coord comes before the total derivative of xi in the code.
SubtractXiTerm(acc, deriv_coord, D_xi) ==
    IF ~acc.ok THEN acc
    ELSE IF ~deriv_coord.ok THEN deriv_coord
    ELSE IF ~D_xi.ok THEN D_xi
    ELSE Ok(PSub(acc.val, PMul(PSym(deriv_coord.val), D_xi.val)))

RECURSIVE XiTerms(_, _, _, _, _, _)
XiTerms(acc, j, prev_index, dependent, xis, jet_space) ==
    IF ~acc.ok THEN acc
    ELSE IF j > Len(jet_space.base_space) /\ j > Len(xis) THEN acc
    ELSE IF j > Len(jet_space.base_space) \/ j > Len(xis) THEN Raise(ErrLengths)
    ELSE XiTerms(
             SubtractXiTerm(
                 acc,
                 ODLookup(jet_space.fibers.val[dependent],
                          IndexAdd(prev_index,
                                   base_index(jet_space, jet_space.base_space[j]).val)),
                 total_derivative(xis[j], jet_space.base_space[j], jet_space)),
             j + 1, prev_index, dependent, xis, jet_space)

\* The body of "for multiindex in multiindex_iter" for one multi-index;
\* prolonged is eta_prolongations[dependent] so far.
ProlongIndex(prolonged, multiindex, dependent, xis, jet_space) ==
    LET base_size == Len(jet_space.base_space)
        index_class == IndexClass(multiindex)
        leading_deriv_index == UnitIndex(index_class, base_size)
        leading_deriv_symbol == jet_space.base_space[index_class]
        prev_index == IndexSub(multiindex, leading_deriv_index)
    IN  IF ~ODHas(prolonged, prev_index) THEN Raise(KeyError)
        ELSE LET eta_component ==
                     total_derivative(ODGet(prolonged, prev_index),
                                      leading_deriv_symbol, jet_space)
             IN  ODPutResult(prolonged, multiindex,
                             XiTerms(eta_component, 1, prev_index, dependent,
                                     xis, jet_space))

RECURSIVE ProlongIndices(_, _, _, _, _)
ProlongIndices(acc, keys, dependent, xis, jet_space) ==
    IF ~acc.ok \/ keys = <<>> THEN acc
    ELSE ProlongIndices(ProlongIndex(acc.val, Head(keys), dependent, xis, jet_space),
                        Tail(keys), dependent, xis, jet_space)

\* The loop "for dependent, eta in zip_strict(jet_space.fibers, etas)" from
\* its i-th pair on; acc is eta_prolongations so far.
RECURSIVE ProlongFibers(_, _, _, _, _)
ProlongFibers(acc, i, xis, etas, jet_space) ==
    IF ~acc.ok THEN acc
    ELSE IF i > Len(jet_space.fibers.keys) /\ i > Len(etas) THEN acc
    ELSE IF i > Len(jet_space.fibers.keys) \/ i > Len(etas) THEN Raise(ErrLengths)
    ELSE LET dependent == jet_space.fibers.keys[i]
             eta == etas[i]
             base_size == Len(jet_space.base_space)
             seeded == ODPut(ODEmpty, ZeroIndex(base_size), eta)
         IN  ProlongFibers(
                 ODPutResult(acc.val, dependent,
                             ProlongIndices(Ok(seeded),
                                            Tail(jet_space.fibers.val[dependent].keys),
                                            dependent, xis, jet_space)),
                 i + 1, xis, etas, jet_space)

\* A variant of get_prolongations that seeds each fiber with a xi instead of
\* its eta.
GetProlongationsFromXis(xis, etas, jet_space) ==
    ProlongFibers(Ok(ODEmpty), 1, etas, xis, jet_space)

\* get_prolongations(xis, etas, jet_space)
get_prolongations(xis, etas, jet_space) ==
    ProlongFibers(Ok(ODEmpty), 1, xis, etas, jet_space)

(***************************************************************************)
(* Generator (generator.py).                                               *)
(***************************************************************************)
\* Generator.__init__(xis, etas, total_space): the components are stored as
\* given, no length is compared with the total space.
Generator(xis, etas, total_space) ==
    [xis |-> xis, etas |-> etas, total_space |-> total_space]

\* A variant of the first loop of __call__ that leaves out the factor xi.
RECURSIVE CallBaseWithoutXi(_, _, _, _)
CallBaseWithoutXi(j, xis, expr, jet_space) ==
    IF j > Len(jet_space.base_space) \/ j > Len(xis) THEN PZero
    ELSE PAdd(PDiff(expr, jet_space.base_space[j]),
              CallBaseWithoutXi(j + 1, xis, expr, jet_space))

\* The loop "for base_coord, xi in zip(jet_space.base_space, self.xis)" of
\* __call__: zip stops at the shorter side.
RECURSIVE CallBase(_, _, _, _)
CallBase(j, xis, expr, jet_space) ==
    IF j > Len(jet_space.base_space) \/ j > Len(xis) THEN PZero
    ELSE PAdd(PMul(xis[j], PDiff(expr, jet_space.base_space[j])),
              CallBase(j + 1, xis, expr, jet_space))

\* A variant of the loop body of __call__ that adds the derivative without
\* the factor eta_prolongation.
AddCallTermWithoutProlongation(acc, eta_prolongation, derivative) ==
    IF ~acc.ok THEN acc
    ELSE IF ~eta_prolongation.ok THEN eta_prolongation
    ELSE Ok(PAdd(acc.val, derivative))

\* out_expr + eta_prolongation * derivative, unless the lookup of the
\* prolongation raised.
AddCallTerm(acc, eta_prolongation, derivative) ==
    IF ~acc.ok THEN acc
    ELSE IF ~eta_prolongation.ok THEN eta_prolongation
    ELSE Ok(PAdd(acc.val, PMul(eta_prolongation.val, derivative)))

\* A variant of the lookup in __call__ that takes the order-zero entry, the
\* eta itself, for every multi-index.
ProlongationAtZero(eta_prolongations, dependent, multiindex) ==
    IF ~ODHas(eta_prolongations, dependent) THEN Raise(KeyError)
    ELSE ODLookup(ODGet(eta_prolongations, dependent), ZeroIndex(Len(multiindex)))

\* eta_prolongations[dependent][multiindex]
ProlongationAt(eta_prolongations, dependent, multiindex) ==
    IF ~ODHas(eta_prolongations, dependent) THEN Raise(KeyError)
    ELSE ODLookup(ODGet(eta_prolongations, dependent), multiindex)

\* The double loop of __call__ over the fiber coordinates of the jet space.
RECURSIVE CallFibers(_, _, _, _)
CallFibers(acc, items, expr, eta_prolongations) ==
    IF ~acc.ok \/ items = <<>> THEN acc
    ELSE CallFibers(
             AddCallTerm(acc,
                         ProlongationAt(eta_prolongations, Head(items).dep,
                                        Head(items).index),
                         PDiff(expr, Head(items).coord)),
             Tail(items), expr, eta_prolongations)

\* The loops of __call__ once get_prolongations has returned or raised.
CallLoops(self, expr, jet_space, eta_prolongations) ==
    IF ~eta_prolongations.ok THEN eta_prolongations
    ELSE CallFibers(Ok(CallBase(1, self.xis, expr, jet_space)),
                    FiberItems(jet_space), expr, eta_prolongations.val)

\* Generator.__call__(expr, jet_space) with a jet space given.
CallOn(self, expr, jet_space) ==
    CallLoops(self, expr, jet_space,
              get_prolongations(self.xis, self.etas, jet_space))

\* Generator.__call__(expr): the jet space defaults to
\* JetSpace(*self.total_space, 0).
Call(self, expr) ==
    CallOn(self, expr, JetSpace(self.total_space[1], self.total_space[2], 0))


\* The loop "for a, b in zip(xs, ys)": the pairs up to the shorter length.
ZipLen(xs, ys) == IF Len(xs) <= Len(ys) THEN Len(xs) ELSE Len(ys)

\* A variant of __add__ whose second loop adds eta1 to itself.
GenAddFirstEtaTwice(self, other) ==
    IF self.total_space # other.total_space THEN Raise(ErrCoordinates)
    ELSE Ok(Generator(
            [i \in 1..ZipLen(self.xis, other.xis) |-> PAdd(self.xis[i], other.xis[i])],
            [i \in 1..ZipLen(self.etas, other.etas) |-> PAdd(self.etas[i], self.etas[i])],
            self.total_space))

\* Generator.__add__(other)
GenAdd(self, other) ==
    IF self.total_space # other.total_space THEN Raise(ErrCoordinates)
    ELSE Ok(Generator(
            [i \in 1..ZipLen(self.xis, other.xis) |-> PAdd(self.xis[i], other.xis[i])],
            [i \in 1..ZipLen(self.etas, other.etas) |-> PAdd(self.etas[i], other.etas[i])],
            self.total_space))

\* A variant of __sub__ without the comparison of the total spaces.
GenSubUnchecked(self, other) ==
    Ok(Generator(
        [i \in 1..ZipLen(self.xis, other.xis) |-> PSub(self.xis[i], other.xis[i])],
        [i \in 1..ZipLen(self.etas, other.etas) |-> PSub(self.etas[i], other.etas[i])],
        self.total_space))

\* Generator.__sub__(other)
GenSub(self, other) ==
    IF self.total_space # other.total_space THEN Raise(ErrCoordinates)
    ELSE Ok(Generator(
            [i \in 1..ZipLen(self.xis, other.xis) |-> PSub(self.xis[i], other.xis[i])],
            [i \in 1..ZipLen(self.etas, other.etas) |-> PSub(self.etas[i], other.etas[i])],
            self.total_space))

\* Generator.__truediv__(other) for an integer other that divides every
\* coefficient (the quotient is then again an integer polynomial).
PDivInt(p, d) ==
    [m \in DOMAIN p |-> IF d > 0 THEN p[m] \div d ELSE 0 - (p[m] \div (0 - d))]

Divides(d, p) == \A m \in DOMAIN p : p[m] % (IF d > 0 THEN d ELSE 0 - d) = 0

GenDiv(self, other) ==
    Ok(Generator([i \in 1..Len(self.xis) |-> PDivInt(self.xis[i], other)],
                 [i \in 1..Len(self.etas) |-> PDivInt(self.etas[i], other)],
                 self.total_space))

\* Generator.__rmul__(other): other * self for an expression other
GenRMul(self, other) ==
    Ok(Generator([i \in 1..Len(self.xis) |-> PMul(other, self.xis[i])],
                 [i \in 1..Len(self.etas) |-> PMul(other, self.etas[i])],
                 self.total_space))

\* Generator.__neg__()
GenNeg(self) ==
    Ok(Generator([i \in 1..Len(self.xis) |-> PNeg(self.xis[i])],
                 [i \in 1..Len(self.etas) |-> PNeg(self.etas[i])],
                 self.total_space))

\* left - right, unless computing left or right raised.
SubResult(left, right) ==
    IF ~left.ok THEN left
    ELSE IF ~right.ok THEN right
    ELSE Ok(PSub(left.val, right.val))

\* left + right, unless computing left or right raised.
AddResults(left, right) ==
    IF ~left.ok THEN left
    ELSE IF ~right.ok THEN right
    ELSE Ok(PAdd(left.val, right.val))

\* A variant of the Lie bracket component with the sign of the second term
\* changed: generator1(c2) + generator2(c1).
BracketComponentSum(generator1, generator2, c1, c2) ==
    AddResults(Call(generator1, c2), Call(generator2, c1))

\* One component of the Lie bracket: generator1(c2) - generator2(c1).
BracketComponent(generator1, generator2, c1, c2) ==
    SubResult(Call(generator1, c2), Call(generator2, c1))

\* The loops of lie_bracket over zip(generator1.xis, generator2.xis) and
\* zip(generator1.etas, generator2.etas), from the i-th pair on.
RECURSIVE BracketList(_, _, _, _, _, _)
BracketList(acc, i, generator1, generator2, cs1, cs2) ==
    IF ~acc.ok \/ i > ZipLen(cs1, cs2) THEN acc
    ELSE BracketList(
             AppendResult(acc, BracketComponent(generator1, generator2, cs1[i], cs2[i])),
             i + 1, generator1, generator2, cs1, cs2)

\* Generator(xis, etas, total_space), unless computing xis or etas raised.
GeneratorResult(xis, etas, total_space) ==
    IF ~xis.ok THEN xis
    ELSE IF ~etas.ok THEN etas
    ELSE Ok(Generator(xis.val, etas.val, total_space))

\* lie_bracket(generator1, generator2)
lie_bracket(generator1, generator2) ==
    IF generator1.total_space # generator2.total_space THEN Raise(ErrCoordinates)
    ELSE GeneratorResult(
             BracketList(Ok(<<>>), 1, generator1, generator2,
                         generator1.xis, generator2.xis),
             BracketList(Ok(<<>>), 1, generator1, generator2,
                         generator1.etas, generator2.etas),
             generator1.total_space)

(***************************************************************************)
(* get_tangent_field and get_jet_space_basis (generator.py).               *)
(***************************************************************************)
\* "for multiindex, value in derivative_dict.items(): if sum(multiindex) ==
\* cur_deg: append(value)": the values of one fiber's dict at the
\* multi-indices of one degree, in key order.
ValuesOfDegree(derivative_dict, cur_deg) ==
    LET selected == SelectSeq(derivative_dict.keys,
                              LAMBDA multiindex : IndexSum(multiindex) = cur_deg)
    IN  [i \in 1..Len(selected) |-> ODGet(derivative_dict, selected[i])]

\* "for derivative_dict in table.values()" from the i-th fiber on.
RECURSIVE OverFibers(_, _, _)
OverFibers(table, i, cur_deg) ==
    IF i > Len(table.keys) THEN <<>>
    ELSE ValuesOfDegree(ODGet(table, table.keys[i]), cur_deg)
             \o OverFibers(table, i + 1, cur_deg)

\* "for cur_deg in range(degree + 1)" from cur_deg on.
RECURSIVE SortedByDegree(_, _, _)
SortedByDegree(table, cur_deg, degree) ==
    IF cur_deg > degree THEN <<>>
    ELSE OverFibers(table, 1, cur_deg) \o SortedByDegree(table, cur_deg + 1, degree)

\* list(chain(self.xis, eta_prolong_exprs)), when get_prolongations returned.
ChainField(xis, eta_prolongations, degree) ==
    IF ~eta_prolongations.ok THEN eta_prolongations
    ELSE Ok(xis \o SortedByDegree(eta_prolongations.val, 0, degree))

\* Generator.get_tangent_field(degree)
get_tangent_field(self, degree) ==
    ChainField(self.xis,
               get_prolongations(self.xis, self.etas,
                                 JetSpace(self.total_space[1], self.total_space[2],
                                          degree)),
               degree)

\* A variant of get_jet_space_basis that lists the coordinates fiber by
\* fiber, without sorting them by degree.
JetSpaceBasisByFiber(self, degree) ==
    LET jet_space == JetSpace(self.total_space[1], self.total_space[2], degree)
        fibers == jet_space.fibers
        byFiber == [i \in 1..Len(fibers.keys) |->
                        [j \in 1..Len(ODGet(fibers, fibers.keys[i]).keys) |->
                             ODGet(ODGet(fibers, fibers.keys[i]),
                                   ODGet(fibers, fibers.keys[i]).keys[j])]]
    IN  Ok(jet_space.base_space
               \o (IF Len(byFiber) = 0 THEN <<>>
                   ELSE IF Len(byFiber) = 1 THEN byFiber[1]
                   ELSE byFiber[1] \o byFiber[2]))

\* Generator.get_jet_space_basis(degree)
get_jet_space_basis(self, degree) ==
    LET jet_space == JetSpace(self.total_space[1], self.total_space[2], degree)
    IN  Ok(jet_space.base_space \o SortedByDegree(jet_space.fibers, 0, degree))

(***************************************************************************)
(* decompose_generator (basis.py).                                         *)
(***************************************************************************)
\* The part of a monomial in the symbols of S.
MonoPart(m, S) ==
    [s \in (BagToSet(m) \cap S) |-> m[s]]

\* poly(expr, basis).coeff_monomial(base): the coefficient, a polynomial
\* in the other symbols, of the monomial base in the basis symbols.
CoeffMonomial(p, basis, base) ==
    LET B == {basis[i] : i \in 1..Len(basis)}
        D == {m \in DOMAIN p : MonoPart(m, B) = base}
    IN  [n \in {MonoPart(m, BagToSet(m) \ B) : m \in D} |-> p[n (+) base]]

\* A variant of the loop body of decompose_generator in which only the loop
\* over xi_polys sets nonzero_generator.
DecomposeBaseByXis(generator, basis, base) ==
    LET base_xis  == [i \in 1..Len(generator.xis) |->
                         CoeffMonomial(generator.xis[i], basis, base)]
        base_etas == [i \in 1..Len(generator.etas) |->
                         CoeffMonomial(generator.etas[i], basis, base)]
    IN  IF \E i \in 1..Len(base_xis) : base_xis[i] # PZero
        THEN <<Generator(base_xis, base_etas, generator.total_space)>>
        ELSE <<>>

\* One pass of the loop "for base in chain((1,), basis)": the generator of
\* the coefficients of base, or nothing when they are all zero.
DecomposeBase(generator, basis, base) ==
    LET base_xis  == [i \in 1..Len(generator.xis) |->
                         CoeffMonomial(generator.xis[i], basis, base)]
        base_etas == [i \in 1..Len(generator.etas) |->
                         CoeffMonomial(generator.etas[i], basis, base)]
        nonzero_generator ==
            \/ \E i \in 1..Len(base_xis) : base_xis[i] # PZero
            \/ \E i \in 1..Len(base_etas) : base_etas[i] # PZero
    IN  IF nonzero_generator
        THEN <<Generator(base_xis, base_etas, generator.total_space)>>
        ELSE <<>>

RECURSIVE DecomposeOver(_, _, _)
DecomposeOver(generator, basis, bases) ==
    IF bases = <<>> THEN <<>>
    ELSE DecomposeBase(generator, basis, Head(bases))
         \o DecomposeOver(generator, basis, Tail(bases))

\* A variant of decompose_generator that loops over basis alone, without
\* the leading 1.
DecomposeWithoutConstant(generator, basis) ==
    Ok(DecomposeOver(generator, basis,
                     [i \in 1..Len(basis) |-> SetToBag({basis[i]})]))

\* decompose_generator(generator, basis)
decompose_generator(generator, basis) ==
    Ok(DecomposeOver(generator, basis,
                     <<EmptyBag>> \o [i \in 1..Len(basis) |-> SetToBag({basis[i]})]))

\* JetSpace.original_total_space
original_total_space(self) == <<self.base_space, dependents(self)>>

(***************************************************************************)
(* Substitution and linear solving of expressions (sympy subs, linsolve).  *)
(***************************************************************************)
\* q ** k
RECURSIVE PPow(_, _)
PPow(q, k) == IF k = 0 THEN PConst(1) ELSE PMul(q, PPow(q, k - 1))

\* The monomial m without the symbol s.
MonoWithout(m, s) == [x \in (BagToSet(m) \ {s}) |-> m[x]]

\* expr.subs(s, q): every occurrence of the symbol s replaced by q.
PSubs(p, s, q) ==
    PSumOver(DOMAIN p,
             [m \in DOMAIN p |->
                 PMul(PMulTerm(PConst(1), MonoWithout(m, s), p[m]),
                      PPow(q, CopiesIn(s, m)))])

\* expr.subs([(old, new), ...]): the pairs are applied one after the other,
\* in list order, each to the result of the one before.
RECURSIVE SubsList(_, _)
SubsList(p, pairs) ==
    IF pairs = <<>> THEN p
    ELSE SubsList(PSubs(p, Head(pairs)[1], Head(pairs)[2]), Tail(pairs))

\* The highest power of the symbol h in p.
DegreeIn(p, h) ==
    IF p = PZero THEN 0
    ELSE CHOOSE k \in {CopiesIn(h, m) : m \in DOMAIN p} :
            \A m \in DOMAIN p : CopiesIn(h, m) <= k

\* The part of p without h, and the coefficient of h in p.
FreeOf(p, h) == [m \in {n \in DOMAIN p : CopiesIn(h, n) = 0} |-> p[m]]

CoeffOf(p, h) == PDiff([m \in {n \in DOMAIN p : CopiesIn(h, n) = 1} |-> p[m]], h)

\* The equations whose solution for h is again a polynomial: h is absent or
\* has coefficient 1 or -1.
PolynomialSolution(eq, h) ==
    DegreeIn(eq, h) >= 2 \/ CoeffOf(eq, h) \in {PZero, PConst(1), PConst(-1)}

\* list(linsolve([eq], h)): the list of solution tuples of eq = 0 for h.
LinSolve(eq, h) ==
    IF DegreeIn(eq, h) >= 2 THEN Raise(ErrNonlinear)
    ELSE IF CoeffOf(eq, h) = PZero
         THEN IF FreeOf(eq, h) = PZero THEN Ok(<< <<PSym(h)>> >>) ELSE Ok(<<>>)
    ELSE IF CoeffOf(eq, h) = PConst(1) THEN Ok(<< <<PNeg(FreeOf(eq, h))>> >>)
    ELSE Ok(<< <<FreeOf(eq, h)>> >>)

(***************************************************************************)
(* find_submanifold_subs and get_lin_symmetry_cond (symcond.py).           *)
(***************************************************************************)
\* A variant of the body of substitutions() that only tests for more than
\* one solution and yields zero when there is none.
SubstitutionUnlessMultiple(rhs) ==
    IF ~rhs.ok THEN rhs
    ELSE IF Len(rhs.val) > 1 THEN Raise(ErrHintMultiple)
    ELSE IF Len(rhs.val) = 0 THEN Ok(PZero)
    ELSE Ok(rhs.val[1][1])

\* The body of substitutions() for one (diff_eq, subs_coord) pair, given
\* rhs = list(linsolve([diff_eq], subs_coord)).
Substitution(rhs) ==
    IF ~rhs.ok THEN rhs
    ELSE IF Len(rhs.val) = 0 THEN Raise(ErrHintNotIn)
    ELSE IF Len(rhs.val) # 1 THEN Raise(ErrHintMultiple)
    ELSE Ok(rhs.val[1][1])

\* (subs_coord, solution), unless computing the solution raised.
PairResult(subs_coord, solution) ==
    IF solution.ok THEN Ok(<<subs_coord, solution.val>>) ELSE solution

\* list(zip(subs_coords, substitutions())) from the k-th pair on: zip takes
\* the next hint first and stops when the hints are exhausted; only then
\* does it advance substitutions(), whose zip_strict raises when the
\* equations are exhausted before the hints.
RECURSIVE ZipSubstitutions(_, _, _, _)
ZipSubstitutions(acc, k, diff_eqs, subs_coords) ==
    IF ~acc.ok \/ k > Len(subs_coords) THEN acc
    ELSE IF k > Len(diff_eqs) THEN Raise(ErrLengths)
    ELSE ZipSubstitutions(
             AppendResult(acc,
                          PairResult(subs_coords[k],
                                     Substitution(LinSolve(diff_eqs[k], subs_coords[k])))),
             k + 1, diff_eqs, subs_coords)

\* A variant of find_submanifold_subs without the else branch: no hints
\* give no substitutions.
FindSubsWithoutHints(diff_eqs, jet_space, derivative_hints) ==
    ZipSubstitutions(Ok(<<>>), 1, diff_eqs, derivative_hints)

\* find_submanifold_subs(diff_eqs, jet_space, derivative_hints): no hints
\* (None or an empty list) raise; a repeated hint raises nothing, the
\* ValueError of that branch is built and dropped.
find_submanifold_subs(diff_eqs, jet_space, derivative_hints) ==
    IF derivative_hints = <<>> THEN Raise(ErrNoHints)
    ELSE ZipSubstitutions(Ok(<<>>), 1, diff_eqs, derivative_hints)

\* eq.subs(submanifold_subs) for eq = generator(diff_eq, jet_space), unless
\* applying the generator raised.
SubsResult(eq, submanifold_subs) ==
    IF eq.ok THEN Ok(SubsList(eq.val, submanifold_subs)) ELSE eq

\* list(eq.subs(submanifold_subs) for eq in eqs_halfway) from the k-th
\* equation on.
RECURSIVE SymCondList(_, _, _, _, _, _)
SymCondList(acc, k, diff_eqs, generator, jet_space, submanifold_subs) ==
    IF ~acc.ok \/ k > Len(diff_eqs) THEN acc
    ELSE SymCondList(
             AppendResult(acc, SubsResult(CallOn(generator, diff_eqs[k], jet_space),
                                          submanifold_subs)),
             k + 1, diff_eqs, generator, jet_space, submanifold_subs)

\* The last statement of get_lin_symmetry_cond, given the result of
\* find_submanifold_subs.
SymCond(diff_eqs, generator, jet_space, submanifold_subs) ==
    IF ~submanifold_subs.ok THEN submanifold_subs
    ELSE SymCondList(Ok(<<>>), 1, diff_eqs, generator, jet_space,
                     submanifold_subs.val)

\* get_lin_symmetry_cond(diff_eqs, generator, jet_space, derivative_hints)
\* for a list of equations.
get_lin_symmetry_cond(diff_eqs, generator, jet_space, derivative_hints) ==
    SymCond(diff_eqs, generator, jet_space,
            find_submanifold_subs(diff_eqs, jet_space, derivative_hints))

(***************************************************************************)
(* optional_iter and iter_wrapper (utils.py).  An argument that is either  *)
(* one element or an iterable is the record [iterable, val]: val is the    *)
(* element when iterable is FALSE and the list of elements otherwise.      *)
(***************************************************************************)
One(x) == [iterable |-> FALSE, val |-> x]

Many(xs) == [iterable |-> TRUE, val |-> xs]

\* iter_wrapper(possible_iter): the elements of an iterable, or the one
\* element itself.
iter_wrapper(possible_iter) ==
    IF possible_iter.iterable THEN possible_iter.val ELSE <<possible_iter.val>>

\* StopIteration, raised by next() on an exhausted iterator.
StopIteration == "StopIteration"

\* A variant of wrapped_func of optional_iter that returns what func returns
\* in both branches.
WrappedResultAsReturned(first_arg, returned) ==
    IF ~returned.ok THEN returned ELSE Ok(Many(returned.val))

\* wrapped_func of optional_iter, given what func returned for the elements
\* of first_arg: an iterable first_arg gets it as it is, a single one gets
\* next(iter(...)) of it.
WrappedResult(first_arg, returned) ==
    IF ~returned.ok THEN returned
    ELSE IF first_arg.iterable THEN Ok(Many(returned.val))
    ELSE IF returned.val = <<>> THEN Raise(StopIteration)
    ELSE Ok(One(Head(returned.val)))

\* The decorated get_lin_symmetry_cond: the first argument is one equation
\* or an iterable of equations, derivative_hints one hint or an iterable.
optional_iter_get_lin_symmetry_cond(first_arg, generator, jet_space, derivative_hints) ==
    WrappedResult(first_arg,
                  get_lin_symmetry_cond(iter_wrapper(first_arg), generator, jet_space,
                                        iter_wrapper(derivative_hints)))

(***************************************************************************)
(* Inputs.                                                                 *)
(***************************************************************************)
\* Base-coordinate lists (distinct symbols).
BaseLists == {<<"t">>, <<"t", "x">>, <<"x", "xx">>}

\* Fiber-coordinate lists (distinct symbols).
FiberLists == {<<"u">>, <<"u", "v">>}

\* No differential equations and no hints.
NoProblem == [diff_eqs |-> <<>>, derivative_hints |-> <<>>]

\* A sequence of n zero expressions.
Zeros(n) == [k \in 1..n |-> PZero]

\* The zero generator on the total space of a jet space.
ZeroGenerator(self) ==
    Generator(Zeros(Len(self.base_space)), Zeros(Len(dependents(self))),
              original_total_space(self))

\* Expressions over the coordinates of a jet space: every original
\* dependent, its product with the first base coordinate, and the product
\* of the first dependent's first and last coordinates.
JetExprs(self) ==
    LET first == FiberItems(self)[1]
        table == self.fibers.val[first.dep]
        last  == table.val[table.keys[Len(table.keys)]]
    IN  {PSym(dependents(self)[i]) : i \in 1..Len(dependents(self))}
        \cup {PMul(PSym(self.base_space[1]), PSym(first.coord)),
              PMul(PSym(first.coord), PSym(last))}

(***************************************************************************)
(* The jet-space machine: a jet space is constructed, then extended and    *)
(* differentiated over.                                                    *)
(***************************************************************************)
InitJet ==
    /\ \E b \in BaseLists, f \in FiberLists, d \in 0..MaxInitDegree :
          space = JetSpace(b, f, d)
    /\ gen = ZeroGenerator(space)
    /\ prob = NoProblem
    /\ res = [op |-> "JetSpace", recv |-> space, arg |-> <<>>, out |-> Ok(space)]

\* new_space = space.extension(new_degree); the model goes on with the
\* returned space, or stays with the receiver when the call raises.
Extend ==
    \E new_degree \in 0..MaxDegree :
        LET out == extension(space, new_degree)
        IN  /\ res' = [op |-> "extension", recv |-> space,
                       arg |-> new_degree, out |-> out]
            /\ space' = IF out.ok THEN out.val ELSE space
            /\ UNCHANGED <<gen, prob>>

\* total_derivative(jet_exp, coordinate, space)
TotalDerivative ==
    \E jet_exp \in JetExprs(space) :
    \E i \in 1..Len(space.base_space) :
        /\ res' = [op |-> "total_derivative", recv |-> space,
                   arg |-> <<jet_exp, space.base_space[i]>>,
                   out |-> total_derivative(jet_exp, space.base_space[i], space)]
        /\ UNCHANGED <<space, gen, prob>>

\* get_prolongations(gen.xis, gen.etas, space) over the jet space as
\* constructed and extended so far
ProlongOver ==
    /\ res' = [op |-> "get_prolongations", recv |-> gen, arg |-> space,
               out |-> get_prolongations(gen.xis, gen.etas, space)]
    /\ UNCHANGED <<space, gen, prob>>

NextJet == Extend \/ TotalDerivative \/ ProlongOver

SpecJet == InitJet /\ [][NextJet]_vars

(***************************************************************************)
(* The prolongation machine: a jet space and a generator are constructed,  *)
(* then the generator is prolonged over and applied on the jet space.      *)
(***************************************************************************)
\* The total spaces generators act on: (base coordinates, dependents).
GenTotalSpaces ==
    {<<<<"t">>, <<"u">>>>, <<<<"t", "x">>, <<"u">>>>, <<<<"t">>, <<"u", "v">>>>}

\* xi components over a total space: 1 and the last base coordinate.
XiExprs(total_space) ==
    <<PConst(1), PSym(total_space[1][Len(total_space[1])])>>

\* eta components over a total space: the first dependent and its product
\* with the first base coordinate.
EtaExprs(total_space) ==
    <<PSym(total_space[2][1]),
      PMul(PSym(total_space[1][1]), PSym(total_space[2][1]))>>

\* The lists of length n - 1, n and n + 1 that alternate between the two
\* expressions of pair, starting with either.
AltList(pair, m, k) == [i \in 1..m |-> pair[((i + k) % 2) + 1]]

ComponentLists(pair, n) ==
    {AltList(pair, m, k) : m \in {j \in {n - 1, n, n + 1} : j >= 0}, k \in 0..1}

InitProl ==
    /\ \E ts \in GenTotalSpaces, d \in 0..MaxProlDegree :
          space = JetSpace(ts[1], ts[2], d)
    /\ \E xis \in ComponentLists(XiExprs(original_total_space(space)),
                                 Len(space.base_space)),
          etas \in ComponentLists(EtaExprs(original_total_space(space)),
                                  Len(dependents(space))) :
          gen = Generator(xis, etas, original_total_space(space))
    /\ prob = NoProblem
    /\ res = [op |-> "Generator", recv |-> gen, arg |-> <<>>, out |-> Ok(gen)]

\* get_prolongations(gen.xis, gen.etas, space)
Prolong ==
    /\ res' = [op |-> "get_prolongations", recv |-> gen, arg |-> space,
               out |-> get_prolongations(gen.xis, gen.etas, space)]
    /\ UNCHANGED <<space, gen, prob>>

\* gen(expr, space)
Apply ==
    \E expr \in JetExprs(space) :
        /\ res' = [op |-> "__call__", recv |-> gen, arg |-> <<expr, space>>,
                   out |-> CallOn(gen, expr, space)]
        /\ UNCHANGED <<space, gen, prob>>

\* gen(expr): the jet space is left out
ApplyDefault ==
    \E expr \in JetExprs(space) :
        /\ res' = [op |-> "__call__", recv |-> gen,
                   arg |-> <<expr, JetSpace(gen.total_space[1], gen.total_space[2], 0)>>,
                   out |-> Call(gen, expr)]
        /\ UNCHANGED <<space, gen, prob>>

\* gen.get_tangent_field(degree), for the degree of the jet space
TangentField ==
    /\ res' = [op |-> "get_tangent_field", recv |-> gen, arg |-> space.degree,
               out |-> get_tangent_field(gen, space.degree)]
    /\ UNCHANGED <<space, gen, prob>>

\* gen.get_jet_space_basis(degree), for the degree of the jet space
JetSpaceBasis ==
    /\ res' = [op |-> "get_jet_space_basis", recv |-> gen, arg |-> space.degree,
               out |-> get_jet_space_basis(gen, space.degree)]
    /\ UNCHANGED <<space, gen, prob>>

NextProl == Prolong \/ Apply \/ ApplyDefault \/ TangentField \/ JetSpaceBasis

SpecProl == InitProl /\ [][NextProl]_vars

(***************************************************************************)
(* The algebra machine: a generator is constructed, then combined with     *)
(* other generators, scaled, bracketed and decomposed.                     *)
(***************************************************************************)
\* xi components with free constants c1, c2: c1 and 1 + c2 * (first base).
AlgXiExprs(total_space) ==
    <<PSym("c1"), PAdd(PConst(1), PMul(PSym("c2"), PSym(total_space[1][1])))>>

\* eta components with free constants: c1 * (first dependent) and
\* c2 * (first base).
AlgEtaExprs(total_space) ==
    <<PMul(PSym("c1"), PSym(total_space[2][1])),
      PMul(PSym("c2"), PSym(total_space[1][1]))>>

\* The generator on total_space with dx more xis than base coordinates and
\* de more etas than dependents.
Partner(total_space, dx, de) ==
    Generator(AltList(AlgXiExprs(total_space), Len(total_space[1]) + dx, 1),
              AltList(AlgEtaExprs(total_space), Len(total_space[2]) + de, 1),
              total_space)

\* The second operands of the binary operations on g.
Others(g) ==
    {Partner(g.total_space, 0, 0), Partner(g.total_space, 1, 0),
     Partner(g.total_space, 0, -1)}
    \cup {Partner(ts, 0, 0) : ts \in GenTotalSpaces \ {g.total_space}}

\* Scalars a generator is multiplied with, integers it is divided by, and
\* the bases it is decomposed in.
Scalars == {PConst(2), PSym("k")}

Divisors == {-1, 2}

Bases == {<<"c1">>, <<"c1", "c2">>, <<"c2", "c1">>}

InitAlg ==
    /\ \E ts \in GenTotalSpaces :
          /\ space = JetSpace(ts[1], ts[2], 0)
          /\ \E xis \in ComponentLists(AlgXiExprs(ts), Len(ts[1])),
                etas \in ComponentLists(AlgEtaExprs(ts), Len(ts[2])) :
                gen = Generator(xis, etas, ts)
    /\ prob = NoProblem
    /\ res = [op |-> "Generator", recv |-> gen, arg |-> <<>>, out |-> Ok(gen)]

\* gen + other
Add ==
    \E other \in Others(gen) :
        /\ res' = [op |-> "__add__", recv |-> gen, arg |-> other,
                   out |-> GenAdd(gen, other)]
        /\ UNCHANGED <<space, gen, prob>>

\* gen - other
Sub ==
    \E other \in Others(gen) :
        /\ res' = [op |-> "__sub__", recv |-> gen, arg |-> other,
                   out |-> GenSub(gen, other)]
        /\ UNCHANGED <<space, gen, prob>>

\* -gen
Neg ==
    /\ res' = [op |-> "__neg__", recv |-> gen, arg |-> <<>>, out |-> GenNeg(gen)]
    /\ UNCHANGED <<space, gen, prob>>

\* other * gen
RMul ==
    \E other \in Scalars :
        /\ res' = [op |-> "__rmul__", recv |-> gen, arg |-> other,
                   out |-> GenRMul(gen, other)]
        /\ UNCHANGED <<space, gen, prob>>

\* gen / other
Div ==
    \E other \in Divisors :
        /\ \A i \in 1..Len(gen.xis) : Divides(other, gen.xis[i])
        /\ \A i \in 1..Len(gen.etas) : Divides(other, gen.etas[i])
        /\ res' = [op |-> "__truediv__", recv |-> gen, arg |-> other,
                   out |-> GenDiv(gen, other)]
        /\ UNCHANGED <<space, gen, prob>>

\* lie_bracket(gen, other)
Bracket ==
    \E other \in Others(gen) :
        /\ res' = [op |-> "lie_bracket", recv |-> gen, arg |-> other,
                   out |-> lie_bracket(gen, other)]
        /\ UNCHANGED <<space, gen, prob>>

\* decompose_generator(gen, basis)
Decompose ==
    \E basis \in Bases :
        /\ res' = [op |-> "decompose_generator", recv |-> gen, arg |-> basis,
                   out |-> decompose_generator(gen, basis)]
        /\ UNCHANGED <<space, gen, prob>>

\* Generators on a total space that hold no free constant: zero, the
\* translation and the scaling in the first base coordinate, and the
\* scaling of the first dependent.
ConstantFree(total_space) ==
    LET nb == Len(total_space[1])
        nf == Len(total_space[2])
        t  == PSym(total_space[1][1])
        u  == PSym(total_space[2][1])
    IN  {Generator(Zeros(nb), Zeros(nf), total_space),
         Generator([i \in 1..nb |-> IF i = 1 THEN PConst(1) ELSE PZero],
                   Zeros(nf), total_space),
         Generator([i \in 1..nb |-> IF i = 1 THEN t ELSE PZero],
                   [i \in 1..nf |-> IF i = nf THEN PMul(t, u) ELSE PZero], total_space),
         Generator(Zeros(nb), [i \in 1..nf |-> IF i = 1 THEN u ELSE PZero],
                   total_space)}

\* c1 * G1 + c2 * G2 for the constants c = <<c1, c2>>.
Combination(c, G1, G2) ==
    GenAdd(GenRMul(G1, PSym(c[1])).val, GenRMul(G2, PSym(c[2])).val).val

\* decompose_generator(c1 * G1 + c2 * G2, [c1, c2]) for generators G1, G2
\* without free constants
DecomposeCombination ==
    \E basis \in {<<"c1", "c2">>, <<"c2", "c1">>} :
    \E G1 \in ConstantFree(gen.total_space), G2 \in ConstantFree(gen.total_space) :
        /\ res' = [op |-> "decompose_combination",
                   recv |-> Combination(basis, G1, G2),
                   arg |-> [basis |-> basis, parts |-> <<G1, G2>>],
                   out |-> decompose_generator(Combination(basis, G1, G2), basis)]
        /\ UNCHANGED <<space, gen, prob>>

NextAlg ==
    Add \/ Sub \/ Neg \/ RMul \/ Div \/ Bracket \/ Decompose \/ DecomposeCombination

SpecAlg == InitAlg /\ [][NextAlg]_vars

(***************************************************************************)
(* The symmetry-condition machine: a first-order jet space, a generator    *)
(* and a list of differential equations with hints are set up, then the    *)
(* substitutions and the linearized symmetry condition are computed.       *)
(***************************************************************************)
\* The first-order derivative coordinate of a dependent over one base
\* coordinate.
FirstDerivative(self, dependent) == ODGet(self.fibers.val[dependent], <<1>>)

\* Differential equations on a first-order jet space over the base t:
\* over the dependent u, u_t - u = 0, u_t - t * u = 0, u_t^2 - u = 0 (not
\* linear in u_t), u_t - u^2 = 0 and u_t - (t + u) = 0; over u and v,
\* u_t - v_t - 1 = 0 and v_t - u = 0.
SymEqs(self) ==
    LET t   == PSym(self.base_space[1])
        u   == PSym(dependents(self)[1])
        u_t == PSym(FirstDerivative(self, dependents(self)[1]))
    IN  IF Len(dependents(self)) = 1
        THEN {PSub(u_t, u), PSub(u_t, PMul(t, u)), PSub(PMul(u_t, u_t), u),
              PSub(u_t, PMul(u, u)), PSub(u_t, PAdd(t, u))}
        ELSE LET v_t == PSym(FirstDerivative(self, dependents(self)[2]))
             IN  {PSub(PSub(u_t, v_t), PConst(1)), PSub(v_t, u)}

\* The hints: the first-order derivative coordinates.
SymHints(self) ==
    {FirstDerivative(self, dependents(self)[i]) : i \in 1..Len(dependents(self))}

\* The lists of one or two elements of S.
OneOrTwo(S) == {<<a>> : a \in S} \cup {<<a, b>> : a \in S, b \in S}

\* Generators on a total space: zero, the translation in the first base
\* coordinate and the scaling of every dependent.
SymGens(total_space) ==
    LET nb == Len(total_space[1])
        nf == Len(total_space[2])
    IN  {Generator(Zeros(nb), Zeros(nf), total_space),
         Generator([i \in 1..nb |-> IF i = 1 THEN PConst(1) ELSE PZero],
                   Zeros(nf), total_space),
         Generator(Zeros(nb), [i \in 1..nf |-> PSym(total_space[2][i])],
                   total_space)}

InitSym ==
    /\ \E f \in FiberLists : space = JetSpace(<<"t">>, f, 1)
    /\ gen \in SymGens(original_total_space(space))
    /\ \E eqs \in OneOrTwo(SymEqs(space)),
          hints \in {<<>>} \cup OneOrTwo(SymHints(space)) :
          /\ \A i \in 1..Len(eqs), j \in 1..Len(hints) :
                PolynomialSolution(eqs[i], hints[j])
          /\ prob = [diff_eqs |-> eqs, derivative_hints |-> hints]
    /\ res = [op |-> "setup", recv |-> gen, arg |-> prob, out |-> Ok(prob)]

\* find_submanifold_subs(diff_eqs, space, derivative_hints)
FindSubs ==
    /\ res' = [op |-> "find_submanifold_subs", recv |-> gen, arg |-> prob,
               out |-> find_submanifold_subs(prob.diff_eqs, space,
                                             prob.derivative_hints)]
    /\ UNCHANGED <<space, gen, prob>>

\* get_lin_symmetry_cond(diff_eqs, gen, space, derivative_hints)
LinSymCond ==
    /\ res' = [op |-> "get_lin_symmetry_cond", recv |-> gen, arg |-> prob,
               out |-> get_lin_symmetry_cond(prob.diff_eqs, gen, space,
                                             prob.derivative_hints)]
    /\ UNCHANGED <<space, gen, prob>>

\* The machine state after get_lin_symmetry_cond was called with the one
\* equation of the problem passed by itself.
AfterSingle(hints) ==
    /\ res' = [op |-> "get_lin_symmetry_cond(single)", recv |-> gen,
               arg |-> [diff_eqs |-> One(prob.diff_eqs[1]), derivative_hints |-> hints],
               out |-> optional_iter_get_lin_symmetry_cond(
                           One(prob.diff_eqs[1]), gen, space, hints)]
    /\ UNCHANGED <<space, gen, prob>>

\* get_lin_symmetry_cond(diff_eq, gen, space, derivative_hints) with one
\* equation passed by itself; the hints are passed as a list or, when there
\* is one, by itself
LinSymCondSingle ==
    /\ Len(prob.diff_eqs) = 1
    /\ \/ AfterSingle(Many(prob.derivative_hints))
       \/ /\ Len(prob.derivative_hints) = 1
          /\ AfterSingle(One(prob.derivative_hints[1]))

NextSym == FindSubs \/ LinSymCond \/ LinSymCondSingle

SpecSym == InitSym /\ [][NextSym]_vars

(***************************************************************************)
(* JetSpace objects in an object store (jetspace.py): what a call changes  *)
(* in place and what it copies.  The store is a sequence of objects, an    *)
(* address is an index in it.  A JetSpace object holds its degree and the  *)
(* addresses of its base_space list and of its fibers dict; the fibers     *)
(* dict holds, per dependent, the address of that dependent's table.       *)
(***************************************************************************)
\* The value of the JetSpace object at address self, read through the store.
Deref(heap, self) ==
    LET outer == heap[heap[self].fibers]
    IN  [fibers |-> [keys |-> outer.keys,
                     val |-> [d \in DOMAIN outer.val |-> heap[outer.val[d]]]],
         degree |-> heap[self].degree,
         base_space |-> heap[heap[self].base_space]]

\* The position of dependent d in the key list of a fibers dict.
KeyPosition(outer, d) == CHOOSE k \in 1..Len(outer.keys) : outer.keys[k] = d

\* The store holding one freshly constructed JetSpace: its base_space
\* list, its tables, its fibers dict and, last, the object itself.
StoreOf(js) ==
    LET n == Len(js.fibers.keys)
    IN  <<js.base_space>>
        \o [k \in 1..n |-> js.fibers.val[js.fibers.keys[k]]]
        \o <<[keys |-> js.fibers.keys,
              val |-> [d \in DOMAIN js.fibers.val |-> 1 + KeyPosition(js.fibers, d)]]>>
        \o <<[degree |-> js.degree, base_space |-> 1, fibers |-> n + 2]>>

\* copy(self): a new object with the same attribute values, that is, the
\* same addresses of base_space and fibers.
copy(heap, self) ==
    [heap |-> Append(heap, heap[self]), ref |-> Len(heap) + 1]

\* deepcopy(fibers dict): a new dict whose values are new tables with the
\* contents of the old ones; the new dict is the last object of the store.
DeepcopyFibers(heap, fibers) ==
    LET outer == heap[fibers]
        n     == Len(outer.keys)
    IN  heap
        \o [k \in 1..n |-> heap[outer.val[outer.keys[k]]]]
        \o <<[keys |-> outer.keys,
              val |-> [d \in DOMAIN outer.val |-> Len(heap) + KeyPosition(outer, d)]]>>

\* dcopy with base_space and fibers set to the two objects allocated last
\* before and last in heap.
SetCopies(heap, dcopy, base_space) ==
    [heap EXCEPT ![dcopy].base_space = base_space, ![dcopy].fibers = Len(heap)]

\* A variant of __deepcopy__ that stops after dcopy = copy(self): the copy
\* shares base_space and fibers with self.
DeepcopyShallow(heap, self) == copy(heap, self)

\* JetSpace.__deepcopy__: dcopy = copy(self), then base_space and fibers
\* are replaced by deep copies.
deepcopy(heap, self) ==
    [heap |-> SetCopies(
                  DeepcopyFibers(Append(copy(heap, self).heap,
                                        heap[heap[self].base_space]),
                                 heap[self].fibers),
                  Len(heap) + 1, Len(heap) + 2),
     ref |-> Len(heap) + 1]

\* The store after the tables reachable from self are replaced by those of
\* fibers: the assignments self.fibers[dependent][deriv_index] = Symbol(...)
\* change the table objects in place.
WriteTables(heap, self, fibers) ==
    LET outer == heap[heap[self].fibers]
    IN  [a \in DOMAIN heap |->
            IF \E d \in DOMAIN outer.val : outer.val[d] = a
            THEN fibers.val[CHOOSE d \in DOMAIN outer.val : outer.val[d] = a]
            ELSE heap[a]]

\* self._add_jet_fibers(upper_degree, lower_degree) on the object at self.
AddJetFibersAt(heap, self, upper_degree, lower_degree) ==
    WriteTables(heap, self,
                AddJetFibers(Deref(heap, self).fibers, Deref(heap, self).base_space,
                             upper_degree, lower_degree))

\* new_space.degree = new_degree
SetDegree(heap, self, new_degree) == [heap EXCEPT ![self].degree = new_degree]

\* The body of extension once new_space = deepcopy(self) is made.  When
\* the call raises, nothing refers to the copy any more and its objects
\* (everything from address first on) are reclaimed.
ExtendCopy(c, new_degree, first) ==
    IF new_degree > c.heap[c.ref].degree
    THEN [ok |-> TRUE, ref |-> c.ref, err |-> "none",
          heap |-> SetDegree(AddJetFibersAt(c.heap, c.ref,
                                            c.heap[c.ref].degree + 1, new_degree),
                             c.ref, new_degree)]
    ELSE [ok |-> FALSE, ref |-> 0, err |-> ErrExtension,
          heap |-> SubSeq(c.heap, 1, first - 1)]

\* JetSpace.extension(new_degree) on the object at self.
ExtensionAt(heap, self, new_degree) ==
    ExtendCopy(deepcopy(heap, self), new_degree, Len(heap) + 1)

(***************************************************************************)
(* The object machine: a jet space is constructed; live spaces are         *)
(* extended, and a returned space is changed in place.  Here the variable  *)
(* space holds the store and the addresses of the live JetSpace objects.   *)
(***************************************************************************)
InitObj ==
    /\ \E b \in BaseLists, f \in FiberLists, d \in 0..MaxInitDegree :
          /\ space = [heap |-> StoreOf(JetSpace(b, f, d)),
                      live |-> <<Len(StoreOf(JetSpace(b, f, d)))>>]
          /\ gen = ZeroGenerator(JetSpace(b, f, d))
    /\ prob = NoProblem
    /\ res = [op |-> "JetSpace", recv |-> space.live[1], arg |-> <<>>,
              out |-> Ok(space.live[1])]

\* The machine state after live[i].extension(new_degree) returned or raised.
AfterExtension(i, new_degree, out) ==
    /\ space' = [heap |-> out.heap,
                 live |-> IF out.ok THEN Append(space.live, out.ref) ELSE space.live]
    /\ res' = [op |-> "extension", recv |-> space.live[i], arg |-> new_degree,
               out |-> IF out.ok THEN Ok(out.ref) ELSE Raise(out.err)]
    /\ UNCHANGED <<gen, prob>>

\* new_space = live[i].extension(new_degree)
ExtendObj ==
    /\ Len(space.live) < MaxSpaces
    /\ \E i \in 1..Len(space.live), new_degree \in 0..MaxDegree :
          AfterExtension(i, new_degree, ExtensionAt(space.heap, space.live[i], new_degree))

\* A later change of the space returned last: its tables are filled in
\* place up to one order above its degree, as _add_jet_fibers(degree + 1)
\* does.
ChangeReturned ==
    /\ Len(space.live) >= 2
    /\ space' = [space EXCEPT !.heap =
                    AddJetFibersAt(space.heap, space.live[Len(space.live)],
                                   space.heap[space.live[Len(space.live)]].degree + 1, 1)]
    /\ res' = [op |-> "_add_jet_fibers", recv |-> space.live[Len(space.live)],
               arg |-> space.heap[space.live[Len(space.live)]].degree + 1,
               out |-> Ok(space.live[Len(space.live)])]
    /\ UNCHANGED <<gen, prob>>

NextObj == ExtendObj \/ ChangeReturned

SpecObj == InitObj /\ [][NextObj]_vars

(***************************************************************************)
(* replace_consts (utils.py).  iter_wrapper is a generator function: what  *)
(* it returns is a generator object, which is consumed by the first pass   *)
(* over it and is equal to no list.  The record [generator, items] is      *)
(* either such an object or a list with the same items.                    *)
(***************************************************************************)
\* symbols(f"C{i}")
OldConst(i) == "C" \o ToString(i)

\* symbols(f"{new_const_name}_{{{i}}}")
NewConst(new_const_name, i) == new_const_name \o "_{" \o ToString(i) \o "}"

GeneratorOver(items) == [generator |-> TRUE, items |-> items]

ListOf(items) == [generator |-> FALSE, items |-> items]

\* [expr.subs(old_const, new_const) for expr in exprs]
SubsEach(exprs, old_const, new_const) ==
    [k \in 1..Len(exprs.items) |-> PSubs(exprs.items[k], old_const, PSym(new_const))]

\* new_exprs == exprs for the list new_exprs: a list equals a list with the
\* same items and never a generator object.
ListEquals(new_exprs, exprs) == ~exprs.generator /\ new_exprs = exprs.items

(***************************************************************************)
(* The constants machine: replace_consts is called on one expression or a  *)
(* list of expressions; each step is one pass of its while loop.  Here     *)
(* prob holds the arguments and space the local variables of the call.     *)
(***************************************************************************)
\* t plus the sum of C<i> * t over a set of indices.
ExprWithConsts(S) ==
    PAdd(PSym("t"),
         PSumOver(S, [i \in S |-> PMul(PSym(OldConst(i)), PSym("t"))]))

ConstExprs == {ExprWithConsts(S) : S \in SUBSET (1..MaxConsts)}

ConstNames == {"c", "alpha"}

\* The state on entry to the while loop.
Called(exprs, new_const_name) ==
    /\ prob = [exprs |-> exprs, new_const_name |-> new_const_name]
    /\ space = [pc |-> "while", exprs |-> GeneratorOver(iter_wrapper(exprs)),
                new_consts |-> <<>>, i |-> 1]
    /\ gen = Generator(<<>>, <<>>, <<<<>>, <<>>>>)
    /\ res = [op |-> "call", recv |-> new_const_name, arg |-> exprs,
              out |-> Ok(<<>>)]

InitConsts ==
    \E new_const_name \in ConstNames :
        \/ \E expr \in ConstExprs : Called(One(expr), new_const_name)
        \/ \E n \in 0..MaxExprs : \E exprs \in [1..n -> ConstExprs] :
               Called(Many(exprs), new_const_name)

\* A pass of the loop that ends in "return exprs, new_consts".
ReturnConsts ==
    /\ space.pc = "while"
    /\ ListEquals(SubsEach(space.exprs, OldConst(space.i),
                           NewConst(prob.new_const_name, space.i)),
                  space.exprs)
    /\ space' = [space EXCEPT !.pc = "returned"]
    /\ res' = [op |-> "replace_consts", recv |-> prob.new_const_name,
               arg |-> prob.exprs,
               out |-> Ok([exprs |-> space.exprs.items,
                           new_consts |-> space.new_consts])]
    /\ UNCHANGED <<gen, prob>>

\* A pass of the loop that appends new_const and goes on with new_exprs.
ReplaceConst ==
    /\ space.pc = "while"
    /\ ~ListEquals(SubsEach(space.exprs, OldConst(space.i),
                            NewConst(prob.new_const_name, space.i)),
                   space.exprs)
    /\ space' = [space EXCEPT
                    !.exprs = ListOf(SubsEach(space.exprs, OldConst(space.i),
                                              NewConst(prob.new_const_name, space.i))),
                    !.new_consts = Append(space.new_consts,
                                          NewConst(prob.new_const_name, space.i)),
                    !.i = space.i + 1]
    /\ res' = [res EXCEPT !.op = "while"]
    /\ UNCHANGED <<gen, prob>>

NextConsts == ReturnConsts \/ ReplaceConst

SpecConsts == InitConsts /\ [][NextConsts]_vars

(***************************************************************************)
(* in_ranges (visualize/utils.py).  None is the record with none = TRUE.   *)
(* ranges is None or a list of entries, each None or a pair (lo, hi); for  *)
(* a vector of one element the pair (lo, hi) and the list [(lo, hi)] give  *)
(* the same array np.array(ranges, ndmin=2), the list is used for both.    *)
(***************************************************************************)
TypeError == "TypeError"

IndexError == "IndexError"

NoRange == [none |-> TRUE, lo |-> 0, hi |-> 0]

Range(lo, hi) == [none |-> FALSE, lo |-> lo, hi |-> hi]

NoRanges == [none |-> TRUE, list |-> <<>>]

Ranges(list) == [none |-> FALSE, list |-> list]

\* seq[mask] for a boolean mask of the same length: the items at the
\* positions where the mask is True, in order.
Masked(seq, mask) ==
    LET kept == {k \in 1..Len(seq) : mask[k]}
    IN  [j \in 1..Cardinality(kept) |->
            seq[CHOOSE k \in kept : Cardinality({m \in kept : m <= k}) = j]]

\* The return statements of in_ranges for the arrays vec and ranges; a vec
\* of one element is compared with every row of ranges.
Within(vec, ranges, strict) ==
    LET at(k) == IF Len(vec) = 1 THEN vec[1] ELSE vec[k]
    IN  IF strict
        THEN /\ \A k \in 1..Len(ranges) : at(k) >= ranges[k].lo
             /\ \A k \in 1..Len(ranges) : at(k) <= ranges[k].hi
        ELSE \E k \in 1..Len(ranges) :
                 at(k) >= ranges[k].lo /\ at(k) <= ranges[k].hi

\* in_ranges(vec, ranges, strict): with more than one element the mask is
\* built by iterating ranges before ranges is compared with None, and
\* iterating None raises TypeError.
in_ranges(vec, ranges, strict) ==
    IF Len(vec) > 1
    THEN IF ranges.none THEN Raise(TypeError)
         ELSE LET mask == [k \in 1..Len(ranges.list) |-> ~ranges.list[k].none]
              IN  IF \A k \in 1..Len(mask) : ~mask[k] THEN Ok(TRUE)
                  ELSE IF Len(mask) # Len(vec) THEN Raise(IndexError)
                  ELSE Ok(Within(Masked(vec, mask), Masked(ranges.list, mask),
                                 strict))
    ELSE IF ranges.none THEN Ok(TRUE)
    ELSE IF \E k \in 1..Len(ranges.list) : ranges.list[k].none
         THEN Raise(TypeError)
    ELSE Ok(Within(vec, ranges.list, strict))

\* The condition of the while loops of integrate_two_ways and
\* integrate_forward, "within_len and in_ranges(t, t_boundry) and
\* in_ranges(y, y_boundry)": and evaluates from left to right and stops at
\* the first false operand.
LoopCondition(within_len, t, y, t_boundry, y_boundry, strict) ==
    IF ~within_len THEN Ok(FALSE)
    ELSE IF ~in_ranges(<<t>>, t_boundry, strict).ok
         THEN in_ranges(<<t>>, t_boundry, strict)
    ELSE IF ~in_ranges(<<t>>, t_boundry, strict).val THEN Ok(FALSE)
    ELSE in_ranges(y, y_boundry, strict)

(***************************************************************************)
(* The integration machine: integrate_two_ways or integrate_forward is     *)
(* called on an integrator with an initial state; each step is one pass of *)
(* a while loop.  The integrator is any ODE solver: a call of integrate    *)
(* succeeds with any state or fails.  Here prob holds the arguments and    *)
(* space the integrator and the local variables of the call; of the two    *)
(* curves, which grow together, curve_t is kept.                           *)
(***************************************************************************)
\* The states of n components.
StatesOf(n) == [1..n -> 0..MaxY]

\* Boundaries for a state of n components: None, or one entry per component
\* (a pair, or None where there is more than one component).
YBoundries(n) ==
    {NoRanges} \cup
    {Ranges(list) : list \in [1..n -> {Range(0, 0), Range(0, MaxY)}
                                       \cup (IF n > 1 THEN {NoRange} ELSE {})]}

TBoundries == {NoRanges, Ranges(<<Range(0 - MaxLen, MaxLen)>>), Ranges(<<Range(0, 0)>>)}

InitRanges ==
    \E n \in 1..MaxVecLen :
    \E init_y \in StatesOf(n), y_boundry \in YBoundries(n),
       t_boundry \in TBoundries, strict \in BOOLEAN, two_ways \in BOOLEAN,
       max_len \in 0..MaxLen :
        /\ prob = [two_ways |-> two_ways, dt |-> 1, max_len |-> max_len,
                   t_boundry |-> t_boundry, y_boundry |-> y_boundry,
                   strict |-> strict]
        /\ space = [pc |-> "forward", t |-> 0, y |-> init_y,
                    init_t |-> 0, init_y |-> init_y,
                    curve_forward_t |-> <<>>, curve_backward_t |-> <<>>]
        /\ gen = Generator(<<>>, <<>>, <<<<>>, <<>>>>)
        /\ res = [op |-> "call", recv |-> two_ways, arg |-> init_y,
                  out |-> Ok(<<>>)]

\* The name of the called function.
Integrate == IF prob.two_ways THEN "integrate_two_ways" ELSE "integrate_forward"

\* The condition of the loop the call is in.
Condition ==
    LoopCondition(IF space.pc = "forward"
                  THEN space.t <= space.init_t + prob.max_len
                  ELSE space.t >= space.init_t - prob.max_len,
                  space.t, space.y, prob.t_boundry, prob.y_boundry, prob.strict)

\* list(reversed(curve_backward_t))
Reversed(seq) == [k \in 1..Len(seq) |-> seq[Len(seq) + 1 - k]]

\* in_ranges(integrator.y, y_boundry, strict=strict) by itself
InRangesOfState ==
    /\ space.pc \in {"forward", "backward"}
    /\ res' = [op |-> "in_ranges", recv |-> prob.two_ways,
               arg |-> [vec |-> space.y, ranges |-> prob.y_boundry,
                        strict |-> prob.strict],
               out |-> in_ranges(space.y, prob.y_boundry, prob.strict)]
    /\ UNCHANGED <<space, gen, prob>>

\* Evaluating the condition of a loop raises.
ConditionRaises ==
    /\ space.pc \in {"forward", "backward"}
    /\ ~Condition.ok
    /\ space' = [space EXCEPT !.pc = "raised"]
    /\ res' = [op |-> Integrate, recv |-> prob.two_ways, arg |-> space.init_y,
               out |-> Condition]
    /\ UNCHANGED <<gen, prob>>

\* A pass of the first loop whose integration step succeeds.
StepForward ==
    /\ space.pc = "forward"
    /\ Condition.ok /\ Condition.val
    /\ \E y \in StatesOf(Len(space.y)) :
           space' = [space EXCEPT
                        !.t = space.t + prob.dt,
                        !.y = y,
                        !.curve_forward_t = Append(space.curve_forward_t,
                                                   space.t + prob.dt)]
    /\ res' = [res EXCEPT !.op = "while"]
    /\ UNCHANGED <<gen, prob>>

\* The end of the first loop of integrate_two_ways, by its condition or by
\* the break after a failed step: the integrator is set back.
TurnBackward ==
    /\ space.pc = "forward"
    /\ Condition.ok
    /\ prob.two_ways
    /\ space' = [space EXCEPT !.pc = "backward", !.t = space.init_t,
                              !.y = space.init_y]
    /\ res' = [res EXCEPT !.op = "while"]
    /\ UNCHANGED <<gen, prob>>

\* A pass of the second loop whose integration step succeeds.
StepBackward ==
    /\ space.pc = "backward"
    /\ Condition.ok /\ Condition.val
    /\ \E y \in StatesOf(Len(space.y)) :
           space' = [space EXCEPT
                        !.t = space.t - prob.dt,
                        !.y = y,
                        !.curve_backward_t = Append(space.curve_backward_t,
                                                    space.t - prob.dt)]
    /\ res' = [res EXCEPT !.op = "while"]
    /\ UNCHANGED <<gen, prob>>

\* The end of the last loop, by its condition or by the break after a failed
\* step: the integrator is set back and the curve is returned.
ReturnCurve ==
    /\ \/ space.pc = "forward" /\ ~prob.two_ways
       \/ space.pc = "backward"
    /\ Condition.ok
    /\ space' = [space EXCEPT !.pc = "returned", !.t = space.init_t,
                              !.y = space.init_y]
    /\ res' = [op |-> Integrate, recv |-> prob.two_ways, arg |-> space.init_y,
               out |-> Ok(Reversed(space.curve_backward_t)
                              \o <<space.init_t>> \o space.curve_forward_t)]
    /\ UNCHANGED <<gen, prob>>

NextRanges ==
    \/ InRangesOfState
    \/ ConditionRaises
    \/ StepForward
    \/ TurnBackward
    \/ StepBackward
    \/ ReturnCurve

SpecRanges == InitRanges /\ [][NextRanges]_vars

(***************************************************************************)
(* Properties of the jet space.                                            *)
(***************************************************************************)
\* The (dependent, multi-index) pairs present in a jet space.
IndexPairs(self) ==
    UNION {{<<dep, a>> : a \in ODKeySet(self.fibers.val[dep])} :
           dep \in DOMAIN self.fibers.val}

\* Claim C1: in every jet space obtained by construction and successful
\* extension() calls, each fiber's multi-index keys are exactly the
\* multi-indices of sum <= degree, and the zero multi-index maps to the
\* original dependent symbol.
C1_KeysAreAllIndicesUpToDegree ==
    \A dep \in DOMAIN space.fibers.val :
        /\ ODKeySet(space.fibers.val[dep])
              = AllIndices(Len(space.base_space), space.degree)
        /\ ODGet(space.fibers.val[dep], ZeroIndex(Len(space.base_space))) = dep

\* Claim C2: a successful extension(new_degree) returns a space of degree
\* new_degree that keeps every entry of the receiver and holds a derivative
\* symbol for every fiber at every multi-index of every order from the old
\* degree + 1 up to new_degree.
C2_ExtensionAddsEveryIntermediateOrder ==
    (res.op = "extension" /\ res.out.ok) =>
        LET old == res.recv
            new == res.out.val
            n   == Len(old.base_space)
        IN  /\ new.degree = res.arg
            /\ \A dep \in DOMAIN old.fibers.val :
                  /\ \A a \in ODKeySet(old.fibers.val[dep]) :
                        /\ ODHas(new.fibers.val[dep], a)
                        /\ ODGet(new.fibers.val[dep], a) = ODGet(old.fibers.val[dep], a)
                  /\ \A a \in AllIndices(n, res.arg) :
                        IndexSum(a) > old.degree => ODHas(new.fibers.val[dep], a)

\* Claim C3: extension is path independent: extending to d2 and then to d3
\* gives the same degree and fiber table as extending to d3 at once, which
\* is the space JetSpace(base, fibers, d3) built directly.
C3_ExtensionPathIndependent ==
    \A d2 \in (space.degree + 1)..MaxDegree :
    \A d3 \in (d2 + 1)..MaxDegree :
        LET twice  == extension(extension(space, d2).val, d3).val
            once   == extension(space, d3).val
            direct == JetSpace(space.base_space, dependents(space), d3)
        IN  /\ twice.degree = once.degree
            /\ twice.fibers.val = once.fibers.val
            /\ once.degree = direct.degree
            /\ once.fibers.val = direct.fibers.val

\* The chain-rule value the total derivative is specified to have.
ChainRule(jet_exp, coordinate, domain) ==
    LET codomain == extension(domain, domain.degree + 1).val
        e        == base_index(domain, coordinate).val
        term     == [pr \in IndexPairs(domain) |->
                        PMul(PSym(ODGet(codomain.fibers.val[pr[1]], IndexAdd(pr[2], e))),
                             PDiff(jet_exp, ODGet(domain.fibers.val[pr[1]], pr[2])))]
    IN  PAdd(PDiff(jet_exp, coordinate), PSumOver(IndexPairs(domain), term))

\* Claim C4: on every jet space reachable by construction and extension()
\* calls, total_derivative in a registered base coordinate completes
\* without a lookup failure and returns the chain-rule sum; the total
\* derivative of a dependent W in t is the coordinate W_{t}.
C4_TotalDerivativeNeverFailsLookup ==
    res.op = "total_derivative" =>
        /\ res.out.ok
        /\ res.out.val = ChainRule(res.arg[1], res.arg[2], res.recv)
        /\ \A i \in 1..Len(dependents(res.recv)) :
              res.arg[1] = PSym(dependents(res.recv)[i]) =>
                  res.out.val = PSym(dependents(res.recv)[i] \o "_{" \o res.arg[2] \o "}")

\* Claim C8: derivative-symbol naming is injective: two different
\* (dependent, multi-index) pairs of a jet space never hold equal symbols
\* (the pair (fiber, zero index) holding the fiber's own symbol).
C8_DerivativeNamingInjective ==
    \A p \in IndexPairs(space), q \in IndexPairs(space) :
        p # q => ODGet(space.fibers.val[p[1]], p[2]) # ODGet(space.fibers.val[q[1]], q[2])

(***************************************************************************)
(* Properties of the prolongation.                                         *)
(***************************************************************************)
\* The right-hand side of the classical prolongation formula for the
\* multi-index alpha of one dependent: D_a(entry[beta]) minus the sum over
\* every base coordinate j of u_{beta + e_j} * D_a(xi_j), with a the first
\* nonzero slot of alpha and beta = alpha - e_a.
ClassicalProlongation(entries, alpha, dependent, xis, jet_space) ==
    LET n    == Len(jet_space.base_space)
        a    == IndexClass(alpha)
        x_a  == jet_space.base_space[a]
        beta == IndexSub(alpha, UnitIndex(a, n))
        term == [j \in 1..n |->
                    PMul(PSym(ODGet(jet_space.fibers.val[dependent],
                                    IndexAdd(beta, UnitIndex(j, n)))),
                         total_derivative(xis[j], x_a, jet_space).val)]
    IN  PSub(total_derivative(ODGet(entries, beta), x_a, jet_space).val,
             PSumOver(1..n, term))

\* Claim C5: get_prolongations implements the classical prolongation
\* formula for any number of base coordinates: every entry of order >= 1
\* equals D_a(entry[beta]) - sum_j u_{beta + e_j} * D_a(xi_j), the total
\* derivative of each xi_j being taken in the leading coordinate x_a.
C5_ProlongationIsClassicalFormula ==
    (/\ res.op = "get_prolongations"
     /\ res.out.ok
     /\ Len(res.recv.xis) = Len(res.arg.base_space)) =>
        \A dep \in ODKeySet(res.out.val) :
        \A alpha \in ODKeySet(ODGet(res.out.val, dep)) :
            IndexSum(alpha) >= 1 =>
                ODGet(ODGet(res.out.val, dep), alpha)
                    = ClassicalProlongation(ODGet(res.out.val, dep), alpha, dep,
                                            res.recv.xis, res.arg)

\* A generator's component counts differ from the jet space's.
CardinalityMismatch(g, jet_space) ==
    \/ Len(g.etas) # Len(jet_space.fibers.keys)
    \/ Len(g.xis) # Len(jet_space.base_space)

\* Claim C10: a cardinality mismatch between a generator's components and
\* the jet space is always an explicit failure: get_prolongations and
\* Generator.__call__ raise, for a jet space of any degree (0 included),
\* whenever the number of etas differs from the number of fibers or the
\* number of xis from the number of base coordinates.
C10_CardinalityMismatchRaises ==
    /\ (res.op = "get_prolongations" /\ CardinalityMismatch(res.recv, res.arg))
           => ~res.out.ok
    /\ (res.op = "__call__" /\ CardinalityMismatch(res.recv, res.arg[2]))
           => ~res.out.ok

(***************************************************************************)
(* Properties of generators.                                               *)
(***************************************************************************)
\* len(xis) == number of base coordinates and len(etas) == number of fiber
\* coordinates of the generator's total space.
WellFormed(g) ==
    /\ Len(g.xis) = Len(g.total_space[1])
    /\ Len(g.etas) = Len(g.total_space[2])

\* The operations that return one generator.
GeneratorOps ==
    {"Generator", "__add__", "__sub__", "__neg__", "__rmul__", "__truediv__",
     "lie_bracket"}

\* Claim C9: every Generator value, created by the constructor or returned
\* by +, -, unary -, scalar multiplication, division, lie_bracket or
\* decompose_generator, has as many xis as its total space has base
\* coordinates and as many etas as it has fiber coordinates.
C9_GeneratorComponentCounts ==
    /\ WellFormed(gen)
    /\ (res.op \in GeneratorOps /\ res.out.ok) => WellFormed(res.out.val)
    /\ (res.op = "decompose_generator" /\ res.out.ok) =>
           \A i \in 1..Len(res.out.val) : WellFormed(res.out.val[i])

(***************************************************************************)
(* Properties of the symmetry condition.                                   *)
(***************************************************************************)
\* What a symbol becomes under the simultaneous substitution of pairs: the
\* solution paired with it when it is a hint, itself otherwise.
ImageOf(x, pairs) ==
    IF \E i \in 1..Len(pairs) : pairs[i][1] = x
    THEN pairs[CHOOSE i \in 1..Len(pairs) : pairs[i][1] = x][2]
    ELSE PSym(x)

\* The product over the symbols of a monomial of their images.
RECURSIVE MonoImage(_, _, _)
MonoImage(m, syms, pairs) ==
    IF syms = {} THEN PConst(1)
    ELSE LET x == CHOOSE y \in syms : TRUE
         IN  PMul(PPow(ImageOf(x, pairs), m[x]), MonoImage(m, syms \ {x}, pairs))

\* The simultaneous replacement of every hint by its own solution: no
\* replaced text is substituted again.
SimultaneousSubs(p, pairs) ==
    PSumOver(DOMAIN p,
             [m \in DOMAIN p |->
                 PMul(PConst(p[m]), MonoImage(m, BagToSet(m), pairs))])

Reverse(seq) == [i \in 1..Len(seq) |-> seq[Len(seq) + 1 - i]]

Distinct(seq) == \A i \in 1..Len(seq), j \in 1..Len(seq) : i # j => seq[i] # seq[j]

\* Claim C6: get_lin_symmetry_cond restricts to the solution submanifold by
\* substituting all hints simultaneously: each result is the generator
\* applied to the equation with every hint replaced by its own solution (a
\* hint inside another hint's solution is not substituted again), and
\* listing the (equation, hint) pairs in the opposite order gives the same
\* conditions.
C6_SubstitutionIsSimultaneous ==
    (/\ res.op = "get_lin_symmetry_cond"
     /\ res.out.ok
     /\ Len(prob.diff_eqs) = Len(prob.derivative_hints)
     /\ Distinct(prob.derivative_hints)) =>
        LET pairs    == find_submanifold_subs(prob.diff_eqs, space,
                                              prob.derivative_hints).val
            reversed == get_lin_symmetry_cond(Reverse(prob.diff_eqs), gen, space,
                                              Reverse(prob.derivative_hints))
        IN  /\ \A k \in 1..Len(prob.diff_eqs) :
                  res.out.val[k]
                      = SimultaneousSubs(CallOn(gen, prob.diff_eqs[k], space).val, pairs)
            /\ reversed.ok
            /\ reversed.val = Reverse(res.out.val)

\* Claim C7: get_lin_symmetry_cond and find_submanifold_subs require
\* exactly one hint per equation: with more hints than equations or fewer
\* hints than equations the call raises and returns no result.
C7_HintCountMismatchRaises ==
    (/\ res.op \in {"find_submanifold_subs", "get_lin_symmetry_cond"}
     /\ prob.derivative_hints # <<>>
     /\ Len(prob.derivative_hints) # Len(prob.diff_eqs)) =>
        ~res.out.ok

(***************************************************************************)
(* Properties of extension on objects.                                     *)
(***************************************************************************)
\* Claim C11: extension(new_degree) never mutates the receiver: after any
\* call, successful or failing, the degree, base-coordinate list and fiber
\* table of the receiver (and of every other space that existed before the
\* call) are unchanged, and a later change of a returned space is not
\* visible in any other space.
C11_ExtensionLeavesReceiverUnchanged ==
    [][\A i \in 1..Len(space.live) :
          (res'.op = "extension" \/ space.live[i] # res'.recv) =>
              Deref(space'.heap, space.live[i]) = Deref(space.heap, space.live[i])]_vars

\* A returned space was changed in place after a successful extension and
\* now differs in its tables from the space the extension would return.
C11_Witness ==
    /\ res.op = "_add_jet_fibers"
    /\ Len(space.live) >= 2
    /\ \E i \in 1..Len(space.live) - 1, d \in 0..MaxDegree :
          LET out == extension(Deref(space.heap, space.live[i]), d)
          IN  /\ out.ok
              /\ out.val.degree = Deref(space.heap, res.recv).degree
              /\ out.val.base_space = Deref(space.heap, res.recv).base_space
              /\ out.val.fibers # Deref(space.heap, res.recv).fibers

\* Claim C12: extension(new_degree) raises ValueError for every new_degree
\* not above the current degree, new_degree equal to the degree included,
\* and returns no jet space then.
C12_ExtensionToNoHigherDegreeRaises ==
    (res.op = "extension" /\ res.arg <= res.recv.degree) =>
        (~res.out.ok /\ res.out.err = ErrExtension)

\* extension was called with the receiver's own degree, and raised.
C12_Witness ==
    /\ res.op = "extension"
    /\ res.arg = res.recv.degree
    /\ res.recv.degree >= 1
    /\ res.out = Raise(ErrExtension)

(***************************************************************************)
(* Properties of the hint substitutions.                                   *)
(***************************************************************************)
\* The number of (equation, hint) pairs.
PairCount ==
    IF Len(prob.diff_eqs) <= Len(prob.derivative_hints)
    THEN Len(prob.diff_eqs) ELSE Len(prob.derivative_hints)

\* Solving equation k for hint k gives exactly one solution.
OneSolution(k) ==
    /\ LinSolve(prob.diff_eqs[k], prob.derivative_hints[k]).ok
    /\ Len(LinSolve(prob.diff_eqs[k], prob.derivative_hints[k]).val) = 1

\* Solving equation k for hint k gives no solution: the hint is absent.
NoSolution(k) ==
    /\ LinSolve(prob.diff_eqs[k], prob.derivative_hints[k]).ok
    /\ Len(LinSolve(prob.diff_eqs[k], prob.derivative_hints[k]).val) = 0

\* Claim C13: find_submanifold_subs and get_lin_symmetry_cond produce a
\* substitution for an (equation, hint) pair only when solving the equation
\* for the hint gives exactly one solution; at the first pair with no
\* solution (hint absent) the call raises "hint is not in equation", at the
\* first pair that fails otherwise it raises a different error; no result
\* is returned in either case.
C13_SubstitutionNeedsOneSolution ==
    (/\ res.op \in {"find_submanifold_subs", "get_lin_symmetry_cond"}
     /\ prob.derivative_hints # <<>>) =>
        /\ res.out.ok => \A k \in 1..PairCount : OneSolution(k)
        /\ (res.op = "find_submanifold_subs" /\ res.out.ok) =>
               \A k \in 1..Len(res.out.val) :
                   res.out.val[k]
                       = <<prob.derivative_hints[k],
                           LinSolve(prob.diff_eqs[k], prob.derivative_hints[k]).val[1][1]>>
        /\ \A k \in 1..PairCount :
               (\A j \in 1..(k - 1) : OneSolution(j)) =>
                   /\ NoSolution(k) => res.out = Raise(ErrHintNotIn)
                   /\ (~OneSolution(k) /\ ~NoSolution(k)) =>
                          (~res.out.ok /\ res.out.err # ErrHintNotIn)

\* The symmetry condition was asked for with a hint that is absent from its
\* equation, after a pair that could be solved, and the call raised.
C13_Witness ==
    /\ res.op = "get_lin_symmetry_cond"
    /\ PairCount = 2
    /\ OneSolution(1)
    /\ NoSolution(2)
    /\ res.out = Raise(ErrHintNotIn)

\* Claim C14: get_lin_symmetry_cond and find_submanifold_subs called
\* without derivative hints raise the not-implemented error and return no
\* symmetry condition.
C14_NoHintsNotImplemented ==
    (/\ res.op \in {"find_submanifold_subs", "get_lin_symmetry_cond"}
     /\ prob.derivative_hints = <<>>) =>
        res.out = Raise(ErrNoHints)

\* The symmetry condition was asked for without hints, with a generator
\* that is not zero.
C14_Witness ==
    /\ res.op = "get_lin_symmetry_cond"
    /\ prob.derivative_hints = <<>>
    /\ \E i \in 1..Len(gen.etas) : gen.etas[i] # PZero
    /\ ~res.out.ok

(***************************************************************************)
(* Properties of the application of a generator.                           *)
(***************************************************************************)
\* Every expression of a list is over the symbols of S.
AllOver(exprs, S) == \A i \in 1..Len(exprs) : FreeSymbols(exprs[i]) \subseteq S

\* The coordinates of the total space of a generator.
TotalCoordinates(g) ==
    {g.total_space[1][i] : i \in 1..Len(g.total_space[1])}
    \cup {g.total_space[2][i] : i \in 1..Len(g.total_space[2])}

\* Claim C15: applying a generator never leaves the jet space: for a
\* generator whose xis and etas are over the total-space coordinates, the
\* result of __call__(expr, jet_space) for an expression over the jet
\* space's coordinates, and every entry of get_prolongations, hold only
\* base coordinates and derivative coordinates of the jet space (of order
\* <= its degree).
C15_ApplicationStaysInJetSpace ==
    (/\ res.out.ok
     /\ AllOver(res.recv.xis, TotalCoordinates(res.recv))
     /\ AllOver(res.recv.etas, TotalCoordinates(res.recv))) =>
        /\ res.op = "get_prolongations" =>
               \A dep \in ODKeySet(res.out.val) :
               \A alpha \in ODKeySet(ODGet(res.out.val, dep)) :
                   FreeSymbols(ODGet(ODGet(res.out.val, dep), alpha))
                       \subseteq Coordinates(res.arg)
        /\ (res.op = "__call__"
            /\ FreeSymbols(res.arg[1]) \subseteq Coordinates(res.arg[2])) =>
               FreeSymbols(res.out.val) \subseteq Coordinates(res.arg[2])

\* A generator with a xi that depends on a base coordinate was applied on a
\* jet space of degree 2 to an expression holding a second-order
\* coordinate, and the result holds a second-order coordinate.
C15_Witness ==
    /\ res.op = "__call__"
    /\ res.out.ok
    /\ res.arg[2].degree = 2
    /\ \E i \in 1..Len(res.recv.xis) : FreeSymbols(res.recv.xis[i]) # {}
    /\ \E c \in FreeSymbols(res.arg[1]) \cap FreeSymbols(res.out.val) :
          \E dep \in ODKeySet(res.arg[2].fibers) :
          \E alpha \in ODKeySet(ODGet(res.arg[2].fibers, dep)) :
              IndexSum(alpha) = 2 /\ ODGet(ODGet(res.arg[2].fibers, dep), alpha) = c

\* left + right, when both were computed.
SumOfResults(left, right) ==
    IF left.ok /\ right.ok THEN Ok(PAdd(left.val, right.val)) ELSE Raise("no sum")

\* The jet spaces of degree 0..MaxProlDegree over a total space.
JetSpacesOver(total_space) ==
    {JetSpace(total_space[1], total_space[2], d) : d \in 0..MaxProlDegree}

\* Claim C16: generator application is additive: for generators g1 and g2
\* on the same total space (each with one xi per base coordinate and one
\* eta per dependent), every jet space J over it and every expression e on
\* J, (g1 + g2)(e, J) equals g1(e, J) + g2(e, J) after expansion.
C16_ApplicationIsAdditive ==
    (/\ res.op = "__add__"
     /\ res.recv.total_space = res.arg.total_space
     /\ WellFormed(res.recv)
     /\ WellFormed(res.arg)) =>
        /\ res.out.ok
        /\ \A J \in JetSpacesOver(res.recv.total_space) :
           \A e \in JetExprs(J) :
               /\ CallOn(res.out.val, e, J).ok
               /\ CallOn(res.out.val, e, J)
                      = SumOfResults(CallOn(res.recv, e, J), CallOn(res.arg, e, J))

\* Two generators with different, nonzero components on a total space with
\* two base coordinates were added.
C16_Witness ==
    /\ res.op = "__add__"
    /\ res.out.ok
    /\ WellFormed(res.recv)
    /\ WellFormed(res.arg)
    /\ Len(res.recv.xis) = 2
    /\ res.recv # res.arg
    /\ \A i \in 1..Len(res.out.val.xis) : res.out.val.xis[i] # PZero
    /\ \A i \in 1..Len(res.out.val.etas) : res.out.val.etas[i] # PZero
    /\ \E J \in JetSpacesOver(res.recv.total_space) :
       \E e \in JetExprs(J) :
           /\ J.degree = 2
           /\ CallOn(res.recv, e, J).val # PZero
           /\ CallOn(res.arg, e, J).val # PZero
           /\ CallOn(res.out.val, e, J).val # CallOn(res.recv, e, J).val

(***************************************************************************)
(* Properties of decompose_generator.                                      *)
(***************************************************************************)
\* Every component of a generator is zero.
IsZeroGenerator(g) ==
    /\ \A i \in 1..Len(g.xis) : g.xis[i] = PZero
    /\ \A i \in 1..Len(g.etas) : g.etas[i] = PZero

\* Claim C17 as stated: for generators G_1..G_n on one total space that
\* are independent of the free constants c_1..c_n,
\* decompose_generator(sum of c_i * G_i, [c_1..c_n]) returns exactly the
\* list [G_1, ..., G_n].
C17_DecompositionReturnsEveryPart ==
    res.op = "decompose_combination" =>
        (res.out.ok /\ res.out.val = res.arg.parts)

\* Claim C17, amended: when none of G_1..G_n is the zero generator,
\* decompose_generator(sum of c_i * G_i, [c_1..c_n]) returns exactly the
\* list [G_1, ..., G_n], in basis order and without a constant-term
\* generator; a G_i that is zero is left out of the list.
C17_DecompositionReturnsNonzeroParts ==
    res.op = "decompose_combination" =>
        /\ res.out.ok
        /\ (\A i \in 1..Len(res.arg.parts) : ~IsZeroGenerator(res.arg.parts[i]))
               => res.out.val = res.arg.parts
        /\ res.out.val = SelectSeq(res.arg.parts, LAMBDA g : ~IsZeroGenerator(g))

\* A combination of two different nonzero generators was decomposed.
C17_Witness ==
    /\ res.op = "decompose_combination"
    /\ res.arg.parts[1] # res.arg.parts[2]
    /\ ~IsZeroGenerator(res.arg.parts[1])
    /\ ~IsZeroGenerator(res.arg.parts[2])
    /\ Len(res.out.val) = 2
\* The number of basis symbols, with multiplicity, in a monomial.
RECURSIVE BasisDegree(_, _)
BasisDegree(m, basis) ==
    IF basis = <<>> THEN 0
    ELSE CopiesIn(Head(basis), m) + BasisDegree(m, Tail(basis))

\* Every component of a generator is linear in the basis.
LinearInBasis(g, basis) ==
    /\ \A i \in 1..Len(g.xis) : \A m \in DOMAIN g.xis[i] : BasisDegree(m, basis) <= 1
    /\ \A i \in 1..Len(g.etas) : \A m \in DOMAIN g.etas[i] : BasisDegree(m, basis) <= 1

\* The constant term of p: p with every basis element set to zero.
RECURSIVE ConstantTerm(_, _)
ConstantTerm(p, basis) ==
    IF basis = <<>> THEN p
    ELSE ConstantTerm(PSubs(p, Head(basis), PZero), Tail(basis))

\* The part of generator g that belongs to position k of chain((1,), basis):
\* the constant terms for k = 1, the derivatives by basis[k - 1] otherwise.
PartOf(g, basis, k) ==
    IF k = 1
    THEN Generator([i \in 1..Len(g.xis) |-> ConstantTerm(g.xis[i], basis)],
                   [i \in 1..Len(g.etas) |-> ConstantTerm(g.etas[i], basis)],
                   g.total_space)
    ELSE Generator([i \in 1..Len(g.xis) |-> PDiff(g.xis[i], basis[k - 1])],
                   [i \in 1..Len(g.etas) |-> PDiff(g.etas[i], basis[k - 1])],
                   g.total_space)

\* The sum over k of (1 or basis[k - 1]) * component(PartOf(g, basis, k)).
Recombined(g, basis) ==
    LET factor == [k \in 1..(Len(basis) + 1) |->
                      IF k = 1 THEN PConst(1) ELSE PSym(basis[k - 1])]
        parts  == [k \in 1..(Len(basis) + 1) |-> PartOf(g, basis, k)]
    IN  Generator(
            [i \in 1..Len(g.xis) |->
                PSumOver(1..(Len(basis) + 1),
                         [k \in 1..(Len(basis) + 1) |-> PMul(factor[k], parts[k].xis[i])])],
            [i \in 1..Len(g.etas) |->
                PSumOver(1..(Len(basis) + 1),
                         [k \in 1..(Len(basis) + 1) |-> PMul(factor[k], parts[k].etas[i])])],
            g.total_space)

\* Claim C18: for a generator linear in the basis, decompose_generator
\* returns the constant-term generator first (only if some component has a
\* nonzero constant term), then one generator per basis element in input
\* order, leaving out every basis element whose coefficient is zero in all
\* components; no returned generator is zero, each has the input's total
\* space, and the constant-term generator plus the sum of basis element
\* times its generator is the input generator.
C18_DecompositionShape ==
    (res.op = "decompose_generator" /\ LinearInBasis(res.recv, res.arg)) =>
        /\ res.out.ok
        /\ res.out.val
               = SelectSeq([k \in 1..(Len(res.arg) + 1) |-> PartOf(res.recv, res.arg, k)],
                           LAMBDA g : ~IsZeroGenerator(g))
        /\ \A k \in 1..Len(res.out.val) :
               /\ ~IsZeroGenerator(res.out.val[k])
               /\ res.out.val[k].total_space = res.recv.total_space
        /\ Recombined(res.recv, res.arg) = res.recv

\* A generator with a constant term and both basis elements was decomposed
\* in the basis listed as (c2, c1): three generators were returned.
C18_Witness ==
    /\ res.op = "decompose_generator"
    /\ res.arg = <<"c2", "c1">>
    /\ LinearInBasis(res.recv, res.arg)
    /\ ~IsZeroGenerator(PartOf(res.recv, res.arg, 1))
    /\ Len(res.out.val) = 3
    /\ res.out.val[2] = PartOf(res.recv, res.arg, 2)

(***************************************************************************)
(* Properties of the symmetry condition for particular generators.         *)
(***************************************************************************)
\* Claim C19: symmetry-condition zero law: for every list of differential
\* equations each of which can be solved for its hint, get_lin_symmetry_cond
\* with the zero generator (all xi = 0, all eta = 0) returns the zero
\* expression for every equation.
C19_ZeroGeneratorGivesZero ==
    (/\ res.op = "get_lin_symmetry_cond"
     /\ IsZeroGenerator(res.recv)
     /\ Len(prob.derivative_hints) = Len(prob.diff_eqs)
     /\ \A k \in 1..PairCount : OneSolution(k)) =>
        /\ res.out.ok
        /\ Len(res.out.val) = Len(prob.diff_eqs)
        /\ \A k \in 1..Len(res.out.val) : res.out.val[k] = PZero

\* The zero generator was applied to a system of two equations, one of
\* which holds the base coordinate, and both results are zero.
C19_Witness ==
    /\ res.op = "get_lin_symmetry_cond"
    /\ IsZeroGenerator(res.recv)
    /\ Len(prob.diff_eqs) = 2
    /\ \E k \in 1..2 : space.base_space[1] \in FreeSymbols(prob.diff_eqs[k])
    /\ res.out = Ok(<<PZero, PZero>>)

\* The generator is the translation in the only base coordinate: xi = 1
\* and eta = 0.
IsTimeTranslation(g) ==
    /\ g.xis = <<PConst(1)>>
    /\ g.etas = <<PZero>>

\* The equation is W_t - f(t, W) for the hint W_t: W_t occurs once, with
\* coefficient 1.
IsNormalForm(eq, W_t) == DegreeIn(eq, W_t) = 1 /\ CoeffOf(eq, W_t) = PConst(1)

\* Claim C20: time-translation test: for a first-order equation
\* W_t - f(t, W) = 0 on base t and fiber W with hint W_t (f a polynomial in
\* t and W), get_lin_symmetry_cond with the generator (xi = 1, eta = 0)
\* returns an expression that vanishes identically if and only if f has no
\* explicit dependence on t.
C20_TimeTranslationTest ==
    (/\ res.op = "get_lin_symmetry_cond"
     /\ IsTimeTranslation(res.recv)
     /\ Len(prob.diff_eqs) = 1
     /\ prob.derivative_hints = <<FirstDerivative(space, dependents(space)[1])>>
     /\ IsNormalForm(prob.diff_eqs[1], prob.derivative_hints[1])) =>
        /\ res.out.ok
        /\ Len(res.out.val) = 1
        /\ (res.out.val[1] = PZero)
               <=> (PDiff(FreeOf(prob.diff_eqs[1], prob.derivative_hints[1]),
                          space.base_space[1]) = PZero)

\* The time translation was tested on an equation whose right-hand side
\* holds t, and the returned expression is not zero.
C20_Witness ==
    /\ res.op = "get_lin_symmetry_cond"
    /\ IsTimeTranslation(res.recv)
    /\ Len(prob.diff_eqs) = 1
    /\ Len(prob.derivative_hints) = 1
    /\ IsNormalForm(prob.diff_eqs[1], prob.derivative_hints[1])
    /\ space.base_space[1] \in FreeSymbols(prob.diff_eqs[1])
    /\ res.out.ok
    /\ res.out.val[1] # PZero

\* The generator is the scaling of the only dependent: xi = 0, eta = W.
IsScaling(g) ==
    /\ g.xis = <<PZero>>
    /\ g.etas = <<PSym(g.total_space[2][1])>>

\* p is f(t) * W: every monomial holds W exactly once and, besides W, only
\* the base coordinate t.
IsHomogeneousLinear(p, t, W) ==
    \A m \in DOMAIN p : CopiesIn(W, m) = 1 /\ BagToSet(m) \subseteq {t, W}

\* Claim C21: scaling test: for a first-order equation W_t - f(t) * W = 0,
\* linear and homogeneous in W (f a polynomial in t), with hint W_t,
\* get_lin_symmetry_cond with the generator (xi = 0, eta = W) returns the
\* zero expression.
C21_ScalingTest ==
    (/\ res.op = "get_lin_symmetry_cond"
     /\ IsScaling(res.recv)
     /\ Len(prob.diff_eqs) = 1
     /\ prob.derivative_hints = <<FirstDerivative(space, dependents(space)[1])>>
     /\ IsNormalForm(prob.diff_eqs[1], prob.derivative_hints[1])
     /\ IsHomogeneousLinear(FreeOf(prob.diff_eqs[1], prob.derivative_hints[1]),
                            space.base_space[1], dependents(space)[1])) =>
        res.out = Ok(<<PZero>>)

\* The scaling was tested on W_t - f(t) * W with an f that holds t, and the
\* zero expression was returned.
C21_Witness ==
    /\ res.op = "get_lin_symmetry_cond"
    /\ IsScaling(res.recv)
    /\ Len(prob.diff_eqs) = 1
    /\ Len(prob.derivative_hints) = 1
    /\ IsNormalForm(prob.diff_eqs[1], prob.derivative_hints[1])
    /\ IsHomogeneousLinear(FreeOf(prob.diff_eqs[1], prob.derivative_hints[1]),
                           space.base_space[1], dependents(space)[1])
    /\ space.base_space[1] \in FreeSymbols(prob.diff_eqs[1])
    /\ res.out = Ok(<<PZero>>)

(***************************************************************************)
(* Properties of the operations on two generators.                         *)
(***************************************************************************)
\* Claim C22: g1 + g2, g1 - g2 and lie_bracket(g1, g2) on generators with
\* unequal total spaces each raise the error "Generators have to be in same
\* coordinates" and produce no generator.
C22_DifferentTotalSpacesRaise ==
    (/\ res.op \in {"__add__", "__sub__", "lie_bracket"}
     /\ res.recv.total_space # res.arg.total_space) =>
        res.out = Raise(ErrCoordinates)

\* A generator was subtracted from one on another total space with as many
\* components, and the call raised.
C22_Witness ==
    /\ res.op = "__sub__"
    /\ res.recv.total_space # res.arg.total_space
    /\ Len(res.recv.xis) = Len(res.arg.xis)
    /\ Len(res.recv.etas) = Len(res.arg.etas)
    /\ ~res.out.ok

\* The derivative of the expression e along the vector field of g on the
\* total space: the sum of xi_i * de/dx_i over the base coordinates and of
\* eta_j * de/du_j over the dependents.
Directional(g, e) ==
    PAdd(PSumOver(1..Len(g.xis),
                  [i \in 1..Len(g.xis) |-> PMul(g.xis[i], PDiff(e, g.total_space[1][i]))]),
         PSumOver(1..Len(g.etas),
                  [j \in 1..Len(g.etas) |-> PMul(g.etas[j], PDiff(e, g.total_space[2][j]))]))

\* Claim C23: for generators g1, g2 on the same total space (each with one
\* xi per base coordinate and one eta per dependent), lie_bracket(g1, g2)
\* is the generator on that total space whose i-th xi is
\* g1(xi2_i) - g2(xi1_i) and whose j-th eta is g1(eta2_j) - g2(eta1_j), the
\* generators applied on the degree-0 jet space; lie_bracket(g1, g2) is
\* -lie_bracket(g2, g1), and lie_bracket(g, g) is the zero generator.
C23_LieBracketComponents ==
    (/\ res.op = "lie_bracket"
     /\ res.recv.total_space = res.arg.total_space
     /\ WellFormed(res.recv)
     /\ WellFormed(res.arg)) =>
        /\ res.out.ok
        /\ res.out.val.total_space = res.recv.total_space
        /\ res.out.val.xis
               = [i \in 1..Len(res.recv.xis) |->
                     PSub(Directional(res.recv, res.arg.xis[i]),
                          Directional(res.arg, res.recv.xis[i]))]
        /\ res.out.val.etas
               = [j \in 1..Len(res.recv.etas) |->
                     PSub(Directional(res.recv, res.arg.etas[j]),
                          Directional(res.arg, res.recv.etas[j]))]
        /\ GenNeg(lie_bracket(res.arg, res.recv).val) = res.out
        /\ IsZeroGenerator(lie_bracket(res.recv, res.recv).val)
        /\ res.recv = res.arg => IsZeroGenerator(res.out.val)

\* The bracket of two generators on two base coordinates was computed and
\* has a nonzero xi and a nonzero eta.
C23_Witness ==
    /\ res.op = "lie_bracket"
    /\ res.out.ok
    /\ WellFormed(res.recv)
    /\ WellFormed(res.arg)
    /\ Len(res.recv.xis) = 2
    /\ \E i \in 1..Len(res.out.val.xis) : res.out.val.xis[i] # PZero
    /\ \E j \in 1..Len(res.out.val.etas) : res.out.val.etas[j] # PZero

(***************************************************************************)
(* Properties of the result shape of get_lin_symmetry_cond.                *)
(***************************************************************************)
\* Claim C24: the result shape of get_lin_symmetry_cond mirrors its first
\* argument: one equation passed by itself gives one expression, the
\* condition for that equation; an iterable of n equations gives a list of
\* exactly n expressions, the k-th being the condition for the k-th
\* equation.
C24_ResultShapeMirrorsInput ==
    /\ (res.op = "get_lin_symmetry_cond" /\ res.out.ok) =>
           /\ Len(res.out.val) = Len(prob.diff_eqs)
           /\ \A k \in 1..Len(prob.diff_eqs) :
                  res.out.val[k]
                      = SubsList(CallOn(gen, prob.diff_eqs[k], space).val,
                                 find_submanifold_subs(prob.diff_eqs, space,
                                                       prob.derivative_hints).val)
    /\ (res.op = "get_lin_symmetry_cond" /\ res.out.ok) =>
           optional_iter_get_lin_symmetry_cond(Many(prob.diff_eqs), gen, space,
                                               Many(prob.derivative_hints))
               = Ok(Many(res.out.val))
    /\ res.op = "get_lin_symmetry_cond(single)" =>
           LET listed == get_lin_symmetry_cond(<<res.arg.diff_eqs.val>>, gen, space,
                                               prob.derivative_hints)
           IN  /\ res.out.ok = listed.ok
               /\ res.out.ok =>
                      /\ Len(listed.val) = 1
                      /\ ~res.out.val.iterable
                      /\ res.out.val.val = listed.val[1]

\* One equation was passed by itself with its hint passed by itself, for a
\* generator that is not zero, and one nonzero expression was returned.
C24_Witness ==
    /\ res.op = "get_lin_symmetry_cond(single)"
    /\ ~res.arg.derivative_hints.iterable
    /\ res.out.ok
    /\ ~res.out.val.iterable
    /\ res.out.val.val # PZero
    /\ res.out.val.val = SubsList(CallOn(gen, prob.diff_eqs[1], space).val,
                                  find_submanifold_subs(prob.diff_eqs, space,
                                                        prob.derivative_hints).val)

(***************************************************************************)
(* Prolongation over a jet space of degree 0.                              *)
(***************************************************************************)
\* Claim C25: over a jet space of degree 0 get_prolongations returns, for
\* each fiber, a mapping with exactly one entry, keyed by the zero
\* multi-index, whose value is that fiber's eta unchanged; it returns
\* whenever there is one eta per fiber.
C25_OrderZeroIdentity ==
    (res.op = "get_prolongations" /\ res.arg.degree = 0) =>
        /\ res.out.ok <=> Len(res.recv.etas) = Len(dependents(res.arg))
        /\ res.out.ok =>
               /\ res.out.val.keys = dependents(res.arg)
               /\ \A i \in 1..Len(dependents(res.arg)) :
                      LET entries == ODGet(res.out.val, dependents(res.arg)[i])
                      IN  /\ entries.keys = <<ZeroIndex(Len(res.arg.base_space))>>
                          /\ ODKeySet(entries) = {ZeroIndex(Len(res.arg.base_space))}
                          /\ ODGet(entries, ZeroIndex(Len(res.arg.base_space)))
                                 = res.recv.etas[i]

\* A generator with two different etas and a xi list of another length than
\* the base space was prolonged over a jet space of degree 0 with two fibers.
C25_Witness ==
    /\ res.op = "get_prolongations"
    /\ res.arg.degree = 0
    /\ res.out.ok
    /\ Len(dependents(res.arg)) = 2
    /\ res.recv.etas[1] # res.recv.etas[2]
    /\ Len(res.recv.xis) # Len(res.arg.base_space)
    /\ ODGet(ODGet(res.out.val, "v"), <<0>>) = res.recv.etas[2]

(***************************************************************************)
(* Properties of the tangent field and the jet space basis.                *)
(***************************************************************************)
\* The (dependent, multi-index) pairs of a jet space whose coordinate is
\* coord.
FiberPlaces(jet_space, coord) ==
    {place \in UNION {{<<dependent, multiindex>> :
                           multiindex \in ODKeySet(ODGet(jet_space.fibers, dependent))} :
                      dependent \in ODKeySet(jet_space.fibers)} :
         ODGet(ODGet(jet_space.fibers, place[1]), place[2]) = coord}

\* field and basis have the same length; at the positions of the base
\* coordinates stand the coordinate and its xi; at every later position stand
\* a derivative coordinate and the prolonged eta of its fiber and
\* multi-index; the orders of the derivative coordinates never descend.
FieldFollowsBasis(field, basis, xis, prolonged, jet_space) ==
    LET base_size == Len(jet_space.base_space)
    IN  /\ Len(field) = Len(basis)
        /\ Len(basis) >= base_size
        /\ \A k \in 1..base_size :
               /\ basis[k] = jet_space.base_space[k]
               /\ field[k] = xis[k]
        /\ \A k \in (base_size + 1)..Len(basis) :
               /\ Cardinality(FiberPlaces(jet_space, basis[k])) = 1
               /\ \A place \in FiberPlaces(jet_space, basis[k]) :
                      field[k] = ODGet(ODGet(prolonged, place[1]), place[2])
        /\ \A k, l \in (base_size + 1)..Len(basis) :
               k < l =>
                   \A pk \in FiberPlaces(jet_space, basis[k]),
                      pl \in FiberPlaces(jet_space, basis[l]) :
                       IndexSum(pk[2]) <= IndexSum(pl[2])
        /\ Len(basis) = base_size
               + Cardinality(UNION {FiberPlaces(jet_space, basis[k]) :
                                        k \in (base_size + 1)..Len(basis)})
        /\ \A dependent \in ODKeySet(jet_space.fibers) :
           \A multiindex \in ODKeySet(ODGet(jet_space.fibers, dependent)) :
               \E k \in (base_size + 1)..Len(basis) :
                   <<dependent, multiindex>> \in FiberPlaces(jet_space, basis[k])

\* Claim C26: for every generator (with one xi per base coordinate and one
\* eta per dependent of its total space) and every degree d >= 0,
\* get_tangent_field(d) and get_jet_space_basis(d) have the same length and
\* the same ordering: position k of the tangent field is the generator's
\* component along the coordinate at position k of the basis (the xi of a
\* base coordinate, the prolonged eta of the fiber and multi-index of a
\* derivative coordinate), with the base coordinates first and the fiber
\* coordinates in ascending derivative order.
C26_TangentFieldFollowsBasis ==
    /\ (res.op = "get_tangent_field" /\ WellFormed(res.recv)) =>
           /\ res.out.ok
           /\ FieldFollowsBasis(
                  res.out.val,
                  get_jet_space_basis(res.recv, res.arg).val,
                  res.recv.xis,
                  get_prolongations(res.recv.xis, res.recv.etas,
                                    JetSpace(res.recv.total_space[1],
                                             res.recv.total_space[2], res.arg)).val,
                  JetSpace(res.recv.total_space[1], res.recv.total_space[2],
                           res.arg))
    /\ (res.op = "get_jet_space_basis" /\ WellFormed(res.recv)) =>
           /\ res.out.ok
           /\ get_tangent_field(res.recv, res.arg).ok
           /\ Len(get_tangent_field(res.recv, res.arg).val) = Len(res.out.val)

\* The tangent field of degree 2 was returned for a generator with two etas:
\* it holds the xi, the two etas, and four prolonged etas, the last of which
\* is not zero.
C26_Witness ==
    /\ res.op = "get_tangent_field"
    /\ WellFormed(res.recv)
    /\ res.arg = 2
    /\ Len(res.recv.etas) = 2
    /\ res.out.ok
    /\ Len(res.out.val) = 7
    /\ res.out.val[7] # PZero
    /\ get_jet_space_basis(res.recv, res.arg).val[2] = "u"
    /\ get_jet_space_basis(res.recv, res.arg).val[3] = "v"

(***************************************************************************)
(* Properties of the order in which get_prolongations goes through the     *)
(* multi-indices.                                                          *)
(***************************************************************************)
\* The multi-index minus one unit in its first nonzero slot.
Predecessor(multiindex) ==
    IndexSub(multiindex, UnitIndex(IndexClass(multiindex), Len(multiindex)))

\* In the key order of every fiber the zero multi-index comes first and the
\* predecessor of every later multi-index comes before it.
PredecessorFirst(jet_space) ==
    \A dependent \in ODKeySet(jet_space.fibers) :
        LET keys == ODGet(jet_space.fibers, dependent).keys
        IN  /\ keys[1] = ZeroIndex(Len(jet_space.base_space))
            /\ \A p \in 2..Len(keys) :
                   \E q \in 1..(p - 1) : keys[q] = Predecessor(keys[p])

\* For every multi-index after the first of every fiber, the fiber holds a
\* derivative coordinate at the predecessor plus one unit in any base slot.
DerivativeCoordinatesPresent(jet_space) ==
    \A dependent \in ODKeySet(jet_space.fibers) :
        LET table == ODGet(jet_space.fibers, dependent)
        IN  \A p \in 2..Len(table.keys) :
            \A j \in 1..Len(jet_space.base_space) :
                ODHas(table, IndexAdd(Predecessor(table.keys[p]),
                                      UnitIndex(j, Len(jet_space.base_space))))

\* Claim C27: in get_prolongations the multi-indices of each fiber are
\* processed in an order in which the predecessor of a multi-index has been
\* computed before the multi-index itself, for every jet space produced by
\* the constructor and by any sequence of extension() calls; so the lookups
\* of the predecessor's prolongation and of the derivative coordinates
\* u_{predecessor+e_j} never fail.
C27_PredecessorComputedFirst ==
    res.op = "get_prolongations" =>
        /\ PredecessorFirst(res.arg)
        /\ DerivativeCoordinatesPresent(res.arg)

(***************************************************************************)
(* Properties of repeated hints.                                           *)
(***************************************************************************)
\* len(subs_coords) > len(set(subs_coords))
HasRepeatedHint(derivative_hints) ==
    \E i, j \in 1..Len(derivative_hints) :
        i # j /\ derivative_hints[i] = derivative_hints[j]

ErrRepeatedHint == "ValueError: Multiple instances of same hint"

\* Claim C28: find_submanifold_subs, and so get_lin_symmetry_cond, rejects a
\* hint list in which the same derivative coordinate appears more than once:
\* a ValueError ("Multiple instances of same hint") is raised and no
\* substitution list is returned.
C28_RepeatedHintRaises ==
    (/\ res.op \in {"find_submanifold_subs", "get_lin_symmetry_cond"}
     /\ HasRepeatedHint(prob.derivative_hints)) =>
        /\ ~res.out.ok
        /\ res.out.err = ErrRepeatedHint

(***************************************************************************)
(* Properties of replace_consts.                                           *)
(***************************************************************************)
\* The indices i of the old constants C<i> that occur in the input and are
\* replaced: C1 .. Ci all occur in it.
ReplacedIndices(exprs) ==
    {i \in 1..(MaxConsts + 1) :
        \A j \in 1..i :
            \E k \in 1..Len(exprs) : OldConst(j) \in FreeSymbols(exprs[k])}

\* expr with every replaced old constant replaced by its new constant.
RECURSIVE WithNewConsts(_, _, _)
WithNewConsts(expr, indices, new_const_name) ==
    IF indices = {} THEN expr
    ELSE LET i == CHOOSE j \in indices : TRUE
         IN  WithNewConsts(PSubs(expr, OldConst(i), PSym(NewConst(new_const_name, i))),
                           indices \ {i}, new_const_name)

\* Claim C29: replace_consts terminates for every finite input and returns,
\* as its list of new constants, exactly one new constant <name>_{i} for
\* each old constant C<i> that occurred in the input expressions and was
\* replaced (so for an input with no C1 the list is empty), together with
\* the expressions in which every such C<i> has been replaced.
C29_NewConstantsAreTheReplacedOnes ==
    res.op = "replace_consts" =>
           LET replaced == ReplacedIndices(iter_wrapper(res.arg))
           IN  /\ res.out.ok
               /\ res.out.val.new_consts
                      = [i \in 1..Cardinality(replaced) |-> NewConst(res.recv, i)]
               /\ (1 \notin replaced) => res.out.val.new_consts = <<>>
               /\ res.out.val.exprs
                      = [k \in 1..Len(iter_wrapper(res.arg)) |->
                            WithNewConsts(iter_wrapper(res.arg)[k], replaced, res.recv)]

(***************************************************************************)
(* Properties of in_ranges.                                                *)
(***************************************************************************)
\* Claim C30: in_ranges(vec, ranges) returns True whenever ranges is None,
\* for a vector of one element or of several, without raising; so
\* integrate_two_ways and integrate_forward run without an error of the
\* boundary test when y_boundry is None, also for a state of more than one
\* component.
C30_NoRangesIsAlwaysInRange ==
    /\ (res.op = "in_ranges" /\ res.arg.ranges.none) => res.out = Ok(TRUE)
    /\ (/\ res.op \in {"integrate_two_ways", "integrate_forward"}
        /\ prob.y_boundry.none) => res.out.ok

====
